---- MODULE Spec2Model ----
(***************************************************************************)
(* Model of the modular-monolith-mcp server: a static catalog of           *)
(* architecture rules, anti-patterns and decision trees, the search        *)
(* scorer / ranker / result formatter over it, the tool, resource and      *)
(* prompt handlers that read it, the two validation tools that read the    *)
(* file system, and the template generator.                                *)
(*                                                                         *)
(* Encoding.  A JavaScript string is a TLA+ string; Len, \o and SubSeq act *)
(* on it character by character.  Four characters of the source that a     *)
(* TLA+ string literal cannot hold are written with an ASCII stand-in that *)
(* occurs nowhere else in the catalog: the em dash U+2014 is "~", the      *)
(* arrow U+2192 is "^", the warning sign U+26A0 is "!" and the backtick    *)
(* U+0060 is "|".  None of them is a letter, a digit, a hyphen or white    *)
(* space, so lower-casing, trimming, tokenizing and lengths are unchanged  *)
(* by the stand-in.                                                        *)
(* A text made of lines joined by "\n" is the sequence of its lines.       *)
(***************************************************************************)
EXTENDS Integers, Sequences, FiniteSets, TLC

(***************************************************************************)
(* String primitives of the JavaScript runtime used by the source.         *)
(***************************************************************************)

UpperLetters == "ABCDEFGHIJKLMNOPQRSTUVWXYZ"

LowerLetters == "abcdefghijklmnopqrstuvwxyz"

Digits == "0123456789"

\* The i-th character of s, as a one-character string.
charAt(s, i) == SubSeq(s, i, i)

\* The set of the characters of s.
CharsOf(s) == {charAt(s, i) : i \in 1..Len(s)}

\* The characters String.prototype.trim removes, among those of the model.
WhiteSpace == {" ", "\t", "\n", "\r", "\f"}

\* Character.toLowerCase for the ASCII letters; every other character of the
\* model's alphabet is its own lower case.
lowerChar(c) ==
    IF c \in CharsOf(UpperLetters)
      THEN LET i == CHOOSE k \in 1..Len(UpperLetters) : charAt(UpperLetters, k) = c
           IN  charAt(LowerLetters, i)
      ELSE c

\* String.prototype.toLowerCase: every character replaced by its lower case,
\* computed half by half.
RECURSIVE toLowerCase(_)
toLowerCase(s) ==
    IF Len(s) = 0 THEN ""
    ELSE IF Len(s) = 1 THEN lowerChar(s)
    ELSE LET half == Len(s) \div 2
         IN  toLowerCase(SubSeq(s, 1, half))
               \o toLowerCase(SubSeq(s, half + 1, Len(s)))

\* String.prototype.trimStart
RECURSIVE trimStart(_)
trimStart(s) ==
    IF s # "" /\ charAt(s, 1) \in WhiteSpace
      THEN trimStart(SubSeq(s, 2, Len(s)))
      ELSE s

\* String.prototype.trimEnd
RECURSIVE trimEnd(_)
trimEnd(s) ==
    IF s # "" /\ charAt(s, Len(s)) \in WhiteSpace
      THEN trimEnd(SubSeq(s, 1, Len(s) - 1))
      ELSE s

\* String.prototype.trim
trim(s) == trimEnd(trimStart(s))

\* String.prototype.includes: needle occurs in hay at some position.  The
\* empty needle occurs at position 1 of every string, the empty one included.
includes(hay, needle) ==
    \E i \in 1..(Len(hay) - Len(needle) + 1) :
        SubSeq(hay, i, i + Len(needle) - 1) = needle

\* String.prototype.startsWith
startsWith(s, prefix) ==
    Len(prefix) <= Len(s) /\ SubSeq(s, 1, Len(prefix)) = prefix

\* Array.prototype.slice(from, to) with 0 <= from, 0 <= to, on a sequence.
slice(seq, from, to) ==
    LET hi == IF to < Len(seq) THEN to ELSE Len(seq)
    IN  IF from >= hi THEN << >> ELSE SubSeq(seq, from + 1, hi)

\* Array.prototype.filter with the predicate given as the set of kept values.
RECURSIVE filterIn(_, _)
filterIn(seq, keep) ==
    IF seq = << >> THEN << >>
    ELSE (IF Head(seq) \in keep THEN <<Head(seq)>> ELSE << >>)
         \o filterIn(Tail(seq), keep)

\* The sum of a sequence of integers.
RECURSIVE SumSeq(_)
SumSeq(seq) ==
    IF seq = << >> THEN 0 ELSE Head(seq) + SumSeq(Tail(seq))

\* All strings over the characters of alphabet with length at most n.
RECURSIVE StringsUpTo(_, _)
StringsUpTo(alphabet, n) ==
    IF n = 0 THEN {""}
    ELSE LET shorter == StringsUpTo(alphabet, n - 1)
         IN  shorter \cup {s \o c : s \in shorter, c \in alphabet}

\* All sequences over S with length at most n.
RECURSIVE SeqsUpTo(_, _)
SeqsUpTo(S, n) ==
    IF n = 0 THEN {<< >>}
    ELSE LET shorter == SeqsUpTo(S, n - 1)
         IN  shorter \cup {Append(s, x) : s \in shorter, x \in S}

(***************************************************************************)
(* shared/types.ts: the ten categories and their labels.                   *)
(***************************************************************************)

CATEGORIES ==
    << "module-structure", "module-boundaries", "module-communication",
       "data-isolation", "dependency-management", "routes-and-controllers",
       "shared-kernel", "testing-strategy", "external-integrations",
       "migration" >>

CategorySet == {CATEGORIES[i] : i \in DOMAIN CATEGORIES}

CATEGORY_LABELS ==
    [c \in CategorySet |->
        CASE c = "module-structure"       -> "Module Structure"
          [] c = "module-boundaries"      -> "Module Boundaries"
          [] c = "module-communication"   -> "Module Communication"
          [] c = "data-isolation"         -> "Data Isolation"
          [] c = "dependency-management"  -> "Dependency Management"
          [] c = "routes-and-controllers" -> "Routes & Controllers"
          [] c = "shared-kernel"          -> "Shared Kernel"
          [] c = "testing-strategy"       -> "Testing Strategy"
          [] c = "external-integrations"  -> "External Integrations"
          [] c = "migration"              -> "Migration & Evolution"]

isValidCategory(value) == value \in CategorySet

(***************************************************************************)
(* rule-catalog: the static catalog.  The fields of an entry are those of  *)
(* the source; the code of an example and the note of a clean-code         *)
(* reference are free text that no operation inspects and are left out.    *)
(* A rule without a source has no source field.                            *)
(***************************************************************************)

RulesData ==
    << [id |-> "domain-centric-modules",
        name |-> "Domain-Centric Modules",
        category |-> "module-structure",
        description |-> "Organize modules around business domains, not technical layers. Each module represents a cohesive business capability (e.g. |orders/|, |payments/|, |users/|), not a layer (e.g. |controllers/|, |services/|, |repositories/|).",
        rationale |-> "Domain-centric organization aligns code structure with business understanding. When a business requirement changes, all related code lives in one place instead of being scattered across layers.",
        examples |-> << [label |-> "Bad", language |-> "text"],
                        [label |-> "Good", language |-> "text"] >>,
        tags |-> << "module", "structure", "domain", "organization", "vertical-slice" >>,
        cleanCodeRefs |-> << [relationship |-> "reinforces", principleId |-> "high-cohesion"],
                             [relationship |-> "extends", principleId |-> "organize-for-change"] >>,
        source |-> "Kamil Grzybek ~ Modular Monolith"],
       [id |-> "vertical-slice-per-module",
        name |-> "Vertical Slice per Module",
        category |-> "module-structure",
        description |-> "Each module should contain all layers needed to fulfill its responsibility: API routes, services, repositories, types, and validation. A module is a self-contained vertical slice through the architecture.",
        rationale |-> "Vertical slices minimize cross-cutting changes. Adding a feature means working within one module directory rather than editing files across the entire project.",
        examples |-> << [label |-> "Good", language |-> "text"],
                        [label |-> "Bad", language |-> "text"] >>,
        tags |-> << "module", "vertical-slice", "structure", "layers", "self-contained" >>,
        cleanCodeRefs |-> << [relationship |-> "implements", principleId |-> "single-responsibility-principle"] >>,
        source |-> "Jimmy Bogard ~ Vertical Slice Architecture"],
       [id |-> "standard-module-layout",
        name |-> "Standard Module Layout",
        category |-> "module-structure",
        description |-> "Every module follows a predictable layout with standard files: service (business logic), repository (data access), types (domain models), validation (input schemas), and index.ts (public API). Consistency across modules reduces cognitive load.",
        rationale |-> "A standard layout means developers know exactly where to find things in any module. New modules are quick to scaffold and review because the structure is familiar.",
        examples |-> << [label |-> "Good", language |-> "typescript"],
                        [label |-> "Bad", language |-> "text"] >>,
        tags |-> << "module", "layout", "convention", "standard", "consistency" >>,
        cleanCodeRefs |-> << [relationship |-> "extends", principleId |-> "pick-one-word-per-concept"] >>],
       [id |-> "self-contained-initialization",
        name |-> "Self-Contained Initialization",
        category |-> "module-structure",
        description |-> "Each module handles its own composition and initialization. Services are wired together within the module, not by an external bootstrapper. The module's index.ts creates and exports ready-to-use instances.",
        rationale |-> "Self-contained initialization means a module can be understood, tested, and replaced without understanding the global setup. It reduces coupling to the application's bootstrap phase.",
        examples |-> << [label |-> "Good", language |-> "typescript"],
                        [label |-> "Bad", language |-> "typescript"] >>,
        tags |-> << "module", "initialization", "composition", "self-contained", "bootstrap" >>,
        cleanCodeRefs |-> << [relationship |-> "implements", principleId |-> "separate-construction-from-use"],
                             [relationship |-> "reinforces", principleId |-> "use-dependency-injection"] >>],
       [id |-> "define-public-api",
        name |-> "Define Public API",
        category |-> "module-boundaries",
        description |-> "Every module must expose its public API through an index.ts barrel file. Only types, functions, and instances exported from index.ts are part of the module's contract. Everything else is an implementation detail.",
        rationale |-> "A well-defined public API is the foundation of module boundaries. It makes the contract explicit, enables independent evolution of internals, and prevents accidental coupling.",
        examples |-> << [label |-> "Good", language |-> "typescript"],
                        [label |-> "Bad", language |-> "typescript"] >>,
        tags |-> << "boundary", "public-api", "barrel", "index", "contract", "encapsulation" >>,
        cleanCodeRefs |-> << [relationship |-> "reinforces", principleId |-> "data-abstraction"],
                             [relationship |-> "implements", principleId |-> "interface-segregation-principle"] >>,
        source |-> "Kamil Grzybek ~ Modular Monolith"],
       [id |-> "hide-implementation-details",
        name |-> "Hide Implementation Details",
        category |-> "module-boundaries",
        description |-> "Module internals (repositories, mappers, helpers, database schemas) must never be imported directly by other modules. Only the public API surface (index.ts exports) is accessible.",
        rationale |-> "Hiding implementation details allows modules to refactor freely without breaking consumers. It enforces loose coupling at the architectural level.",
        examples |-> << [label |-> "Bad", language |-> "typescript"],
                        [label |-> "Good", language |-> "typescript"] >>,
        tags |-> << "boundary", "encapsulation", "implementation", "hiding", "internal" >>,
        cleanCodeRefs |-> << [relationship |-> "extends", principleId |-> "law-of-demeter"],
                             [relationship |-> "reinforces", principleId |-> "avoid-inappropriate-intimacy"] >>],
       [id |-> "dto-at-boundaries",
        name |-> "DTOs at Boundaries",
        category |-> "module-boundaries",
        description |-> "Use Data Transfer Objects (DTOs) at module boundaries. Never pass internal entities or database models across module boundaries. DTOs represent the contract; internal models can change freely.",
        rationale |-> "DTOs decouple the module's internal model from its public contract. Internal schema changes don't break consumers as long as the DTO remains stable.",
        examples |-> << [label |-> "Bad", language |-> "typescript"],
                        [label |-> "Good", language |-> "typescript"] >>,
        tags |-> << "boundary", "dto", "contract", "decoupling", "data-transfer" >>,
        cleanCodeRefs |-> << [relationship |-> "reinforces", principleId |-> "data-transfer-objects"] >>],
       [id |-> "stable-contracts",
        name |-> "Stable Contracts",
        category |-> "module-boundaries",
        description |-> "Public module contracts (exported types, function signatures) should be stable. Changes to public APIs require versioning or migration strategies. Breaking changes are communicated explicitly.",
        rationale |-> "Stable contracts allow modules to evolve independently. When a contract must change, explicit versioning prevents silent breakage across the codebase.",
        examples |-> << [label |-> "Good", language |-> "typescript"],
                        [label |-> "Bad", language |-> "typescript"] >>,
        tags |-> << "boundary", "contract", "stability", "versioning", "backwards-compatible" >>,
        cleanCodeRefs |-> << [relationship |-> "implements", principleId |-> "open-closed-principle"] >>],
       [id |-> "no-direct-module-imports",
        name |-> "No Direct Module Imports",
        category |-> "module-communication",
        description |-> "Modules NEVER import directly from another module's internal files. All cross-module communication goes through the public API (index.ts). This is the most fundamental boundary rule.",
        rationale |-> "Direct imports create tight coupling. When module A imports module B's internal file, any refactoring in B can break A. Public APIs provide a stable interface.",
        examples |-> << [label |-> "Bad", language |-> "typescript"],
                        [label |-> "Good", language |-> "typescript"] >>,
        tags |-> << "communication", "import", "boundary", "coupling", "direct-import" >>,
        cleanCodeRefs |-> << [relationship |-> "implements", principleId |-> "avoid-inappropriate-intimacy"],
                             [relationship |-> "reinforces", principleId |-> "dependency-inversion-principle"] >>],
       [id |-> "sync-via-service-interface",
        name |-> "Sync via Service Interface",
        category |-> "module-communication",
        description |-> "When module A needs data from module B synchronously, it calls B's exposed service interface. The service is exported from B's index.ts and used directly. This is appropriate for queries and reads.",
        rationale |-> "Service interfaces provide a clear, typed contract for synchronous communication. They're simple, traceable, and suitable for read operations where immediate response is needed.",
        examples |-> << [label |-> "Good", language |-> "typescript"],
                        [label |-> "Bad", language |-> "typescript"] >>,
        tags |-> << "communication", "sync", "service", "interface", "query" >>,
        cleanCodeRefs |-> << [relationship |-> "reinforces", principleId |-> "law-of-demeter"] >>],
       [id |-> "async-via-events",
        name |-> "Async via Events",
        category |-> "module-communication",
        description |-> "For operations where module A needs to notify module B without waiting for a response, use an internal event bus. Events are fire-and-forget and enable loose coupling between modules.",
        rationale |-> "Events decouple the sender from the receiver. Module A doesn't need to know who listens. This is ideal for side effects: sending emails, updating caches, triggering workflows.",
        examples |-> << [label |-> "Good", language |-> "typescript"],
                        [label |-> "Bad", language |-> "typescript"] >>,
        tags |-> << "communication", "async", "events", "event-bus", "fire-and-forget", "decoupling" >>,
        cleanCodeRefs |-> << [relationship |-> "implements", principleId |-> "open-closed-principle"],
                             [relationship |-> "reinforces", principleId |-> "single-responsibility-principle"] >>],
       [id |-> "anti-corruption-layer",
        name |-> "Anti-Corruption Layer",
        category |-> "module-communication",
        description |-> "When integrating with another module or external system whose model differs from yours, introduce an Anti-Corruption Layer (ACL) that translates between the foreign model and your internal model.",
        rationale |-> "An ACL prevents foreign concepts from leaking into your module. If the external model changes, only the ACL needs updating ~ your business logic stays clean.",
        examples |-> << [label |-> "Good", language |-> "typescript"],
                        [label |-> "Bad", language |-> "typescript"] >>,
        tags |-> << "communication", "acl", "anti-corruption", "translation", "adapter" >>,
        cleanCodeRefs |-> << [relationship |-> "implements", principleId |-> "data-abstraction"] >>,
        source |-> "Eric Evans ~ Domain-Driven Design"],
       [id |-> "separate-module-data",
        name |-> "Separate Module Data",
        category |-> "data-isolation",
        description |-> "Each module owns its data. No other module may read or write another module's database tables, collections, or storage directly. Cross-module data access goes through the owning module's service.",
        rationale |-> "Data ownership is the strongest boundary. When modules share data directly, any schema change can cascade through the system. Service-mediated access provides a stable interface.",
        examples |-> << [label |-> "Bad", language |-> "typescript"],
                        [label |-> "Good", language |-> "typescript"] >>,
        tags |-> << "data", "isolation", "ownership", "database", "separation" >>,
        cleanCodeRefs |-> << [relationship |-> "extends", principleId |-> "avoid-inappropriate-intimacy"] >>,
        source |-> "Sam Newman ~ Building Microservices"],
       [id |-> "no-cross-module-joins",
        name |-> "No Cross-Module Joins",
        category |-> "data-isolation",
        description |-> "Never perform database JOINs across tables owned by different modules. If you need combined data, query each module's service separately and join in application code.",
        rationale |-> "Cross-module JOINs create invisible coupling at the database level. They break if either module's schema changes and make future module extraction nearly impossible.",
        examples |-> << [label |-> "Bad", language |-> "typescript"],
                        [label |-> "Good", language |-> "typescript"] >>,
        tags |-> << "data", "join", "query", "cross-module", "database", "isolation" >>,
        cleanCodeRefs |-> << [relationship |-> "reinforces", principleId |-> "single-responsibility-principle"] >>],
       [id |-> "logical-schema-separation",
        name |-> "Logical Schema Separation",
        category |-> "data-isolation",
        description |-> "In a monolith with a single database (e.g., Prisma), use logical separation to indicate which module owns which tables. Use naming conventions, schema comments, or separate Prisma schema files per module.",
        rationale |-> "Even with a shared database, logical ownership makes it clear who is responsible for what. This prepares the system for future extraction if needed.",
        examples |-> << [label |-> "Good", language |-> "prisma"],
                        [label |-> "Bad", language |-> "prisma"] >>,
        tags |-> << "data", "schema", "prisma", "logical-separation", "naming" >>,
        cleanCodeRefs |-> << [relationship |-> "reinforces", principleId |-> "use-intention-revealing-names"] >>],
       [id |-> "data-ownership-principle",
        name |-> "Data Ownership Principle",
        category |-> "data-isolation",
        description |-> "The module that creates the data is responsible for its entire lifecycle: creation, reads, updates, deletion, and validation. Other modules request operations through the owning module's service.",
        rationale |-> "Clear ownership prevents conflicting writes, inconsistent validation, and orphaned data. One module is the source of truth for each piece of data.",
        examples |-> << [label |-> "Good", language |-> "typescript"],
                        [label |-> "Bad", language |-> "typescript"] >>,
        tags |-> << "data", "ownership", "lifecycle", "crud", "source-of-truth" >>,
        cleanCodeRefs |-> << [relationship |-> "reinforces", principleId |-> "single-responsibility-principle"] >>],
       [id |-> "acyclic-dependency-graph",
        name |-> "Acyclic Dependency Graph",
        category |-> "dependency-management",
        description |-> "The module dependency graph must be a Directed Acyclic Graph (DAG). No circular dependencies between modules. If A depends on B, B must never depend on A (directly or transitively).",
        rationale |-> "Circular dependencies make modules impossible to understand, test, or extract independently. They indicate unclear boundaries that need redesigning.",
        examples |-> << [label |-> "Bad", language |-> "typescript"],
                        [label |-> "Good", language |-> "typescript"] >>,
        tags |-> << "dependency", "acyclic", "dag", "circular", "graph", "cycle" >>,
        cleanCodeRefs |-> << [relationship |-> "implements", principleId |-> "dependency-inversion-principle"] >>,
        source |-> "Robert C. Martin ~ Clean Architecture"],
       [id |-> "depend-on-abstractions",
        name |-> "Depend on Abstractions",
        category |-> "dependency-management",
        description |-> "Modules should depend on interfaces and types, not concrete implementations. When a module needs capability from another module, depend on the exported interface, not the concrete class.",
        rationale |-> "Depending on abstractions allows swapping implementations without changing consumers. It enables testing with mocks and reduces coupling between modules.",
        examples |-> << [label |-> "Good", language |-> "typescript"],
                        [label |-> "Bad", language |-> "typescript"] >>,
        tags |-> << "dependency", "abstraction", "interface", "coupling", "inversion" >>,
        cleanCodeRefs |-> << [relationship |-> "reinforces", principleId |-> "dependency-inversion-principle"],
                             [relationship |-> "complements", principleId |-> "open-closed-principle"] >>],
       [id |-> "dependency-direction",
        name |-> "Dependency Direction",
        category |-> "dependency-management",
        description |-> "Dependencies should flow in one direction: infrastructure ^ application ^ domain. Higher-level modules (domain) should never depend on lower-level modules (infrastructure).",
        rationale |-> "Unidirectional dependency flow makes the system predictable. Domain logic stays pure and testable, free from infrastructure concerns.",
        examples |-> << [label |-> "Good", language |-> "text"],
                        [label |-> "Bad", language |-> "typescript"] >>,
        tags |-> << "dependency", "direction", "flow", "layers", "domain", "infrastructure" >>,
        cleanCodeRefs |-> << [relationship |-> "complements", principleId |-> "separate-construction-from-use"] >>,
        source |-> "Robert C. Martin ~ Clean Architecture"],
       [id |-> "thin-routes",
        name |-> "Thin Routes",
        category |-> "routes-and-controllers",
        description |-> "Route handlers should be thin: validate input, call the service, return response. No business logic, no direct database access, no complex transformations in the route.",
        rationale |-> "Thin routes keep the API layer as a simple adapter. Business logic in services is reusable and testable; business logic in routes is neither.",
        examples |-> << [label |-> "Good", language |-> "typescript"],
                        [label |-> "Bad", language |-> "typescript"] >>,
        tags |-> << "route", "controller", "thin", "handler", "api", "validation" >>,
        cleanCodeRefs |-> << [relationship |-> "implements", principleId |-> "do-one-thing"],
                             [relationship |-> "reinforces", principleId |-> "keep-functions-small"] >>],
       [id |-> "one-route-one-module",
        name |-> "One Route, One Module",
        category |-> "routes-and-controllers",
        description |-> "Each route belongs to exactly one module. A route file lives within its module directory and only calls that module's service. Cross-module operations are handled by the service, not the route.",
        rationale |-> "When routes belong to one module, the API surface is clear. It prevents routes from becoming orchestrators that couple multiple modules together.",
        examples |-> << [label |-> "Good", language |-> "typescript"],
                        [label |-> "Bad", language |-> "typescript"] >>,
        tags |-> << "route", "module", "ownership", "api", "single" >>,
        cleanCodeRefs |-> << [relationship |-> "implements", principleId |-> "single-responsibility-principle"] >>],
       [id |-> "request-validation-at-edge",
        name |-> "Request Validation at Edge",
        category |-> "routes-and-controllers",
        description |-> "Validate request input at the route/controller level (the edge), not deep inside services. Use Zod schemas or similar to validate and parse input before passing it to the service.",
        rationale |-> "Validating at the edge means services receive trusted, typed data. It separates HTTP concerns (parsing, validation) from business logic (processing).",
        examples |-> << [label |-> "Good", language |-> "typescript"],
                        [label |-> "Bad", language |-> "typescript"] >>,
        tags |-> << "route", "validation", "edge", "zod", "input", "parsing" >>,
        cleanCodeRefs |-> << [relationship |-> "reinforces", principleId |-> "single-responsibility-principle"],
                             [relationship |-> "complements", principleId |-> "prefer-exceptions-to-error-codes"] >>],
       [id |-> "minimal-shared-code",
        name |-> "Minimal Shared Code",
        category |-> "shared-kernel",
        description |-> "The shared kernel (code used by multiple modules) should be minimal and extremely stable. Limit it to: logger, database client, event bus, base types, and configuration. Nothing else.",
        rationale |-> "Every piece of shared code is a coupling point. The more you share, the harder it is to change anything. A minimal kernel means minimal coupling.",
        examples |-> << [label |-> "Good", language |-> "text"],
                        [label |-> "Bad", language |-> "text"] >>,
        tags |-> << "shared", "kernel", "minimal", "coupling", "common" >>,
        cleanCodeRefs |-> << [relationship |-> "extends", principleId |-> "classes-should-be-small"] >>,
        source |-> "Eric Evans ~ Domain-Driven Design"],
       [id |-> "prefer-duplication-over-coupling",
        name |-> "Prefer Duplication over Coupling",
        category |-> "shared-kernel",
        description |-> "When two modules need similar code, prefer duplicating it in each module rather than extracting it to shared. Coupling between modules is more expensive than local duplication.",
        rationale |-> "Duplication is a local problem; coupling is a global problem. Two modules with similar validation code can evolve independently. Shared code forces them to change in lockstep.",
        examples |-> << [label |-> "Good", language |-> "typescript"],
                        [label |-> "Bad", language |-> "typescript"] >>,
        tags |-> << "shared", "duplication", "coupling", "dry", "independence" >>,
        cleanCodeRefs |-> << [relationship |-> "complements", principleId |-> "dry-principle"] >>,
        source |-> "Sandi Metz ~ The Wrong Abstraction"],
       [id |-> "shared-types-only",
        name |-> "Shared Types Only",
        category |-> "shared-kernel",
        description |-> "The shared kernel should contain only types, interfaces, and constants ~ never implementations. If you need shared behavior, use dependency injection or events instead of shared code.",
        rationale |-> "Types are the safest thing to share because they have no behavior. Shared implementations create coupling and make it hard to reason about which module controls which behavior.",
        examples |-> << [label |-> "Good", language |-> "typescript"],
                        [label |-> "Bad", language |-> "typescript"] >>,
        tags |-> << "shared", "types", "interface", "implementation", "kernel" >>,
        cleanCodeRefs |-> << [relationship |-> "reinforces", principleId |-> "interface-segregation-principle"] >>],
       [id |-> "test-module-in-isolation",
        name |-> "Test Module in Isolation",
        category |-> "testing-strategy",
        description |-> "Each module should be testable independently. Unit tests for a module should not require other modules to be running or initialized. Mock external dependencies.",
        rationale |-> "Isolated tests are fast, reliable, and pinpoint failures precisely. If testing one module requires another, the modules are too coupled.",
        examples |-> << [label |-> "Good", language |-> "typescript"],
                        [label |-> "Bad", language |-> "typescript"] >>,
        tags |-> << "testing", "isolation", "unit-test", "mock", "independent" >>,
        cleanCodeRefs |-> << [relationship |-> "extends", principleId |-> "independent-tests"],
                             [relationship |-> "reinforces", principleId |-> "fast-tests"] >>],
       [id |-> "contract-tests-at-boundaries",
        name |-> "Contract Tests at Boundaries",
        category |-> "testing-strategy",
        description |-> "Test the module's public API (contract) rather than its internal implementation. Tests should exercise the exported functions and verify the expected DTOs.",
        rationale |-> "Contract tests survive refactoring. If you test internals, every refactoring breaks tests. Contract tests verify what matters: the module delivers what it promises.",
        examples |-> << [label |-> "Good", language |-> "typescript"],
                        [label |-> "Bad", language |-> "typescript"] >>,
        tags |-> << "testing", "contract", "boundary", "public-api", "integration" >>,
        cleanCodeRefs |-> << [relationship |-> "extends", principleId |-> "test-boundary-conditions"] >>],
       [id |-> "mock-other-modules",
        name |-> "Mock Other Modules",
        category |-> "testing-strategy",
        description |-> "When testing a module that depends on another module, mock the dependency at the module boundary (its public API). Never mock internal classes of another module.",
        rationale |-> "Mocking at module boundaries keeps tests focused on the module under test. It verifies integration contracts without requiring the full dependency chain.",
        examples |-> << [label |-> "Good", language |-> "typescript"],
                        [label |-> "Bad", language |-> "typescript"] >>,
        tags |-> << "testing", "mock", "module", "boundary", "dependency" >>,
        cleanCodeRefs |-> << [relationship |-> "reinforces", principleId |-> "independent-tests"] >>],
       [id |-> "isolated-integration-module",
        name |-> "Isolated Integration Module",
        category |-> "external-integrations",
        description |-> "Each external integration (Stripe, SendGrid, S3, etc.) should live in its own module or within the consuming module behind a client wrapper. External API details must not leak into business logic.",
        rationale |-> "Isolating integrations means switching providers or updating API versions only affects one module. Business logic stays clean of external API specifics.",
        examples |-> << [label |-> "Good", language |-> "text"],
                        [label |-> "Bad", language |-> "typescript"] >>,
        tags |-> << "integration", "external", "isolation", "module", "provider" >>,
        cleanCodeRefs |-> << [relationship |-> "implements", principleId |-> "single-responsibility-principle"],
                             [relationship |-> "reinforces", principleId |-> "separate-construction-from-use"] >>],
       [id |-> "dedicated-client-wrapper",
        name |-> "Dedicated Client Wrapper",
        category |-> "external-integrations",
        description |-> "Create a dedicated client wrapper for each external API. The wrapper translates between the external API's model and your internal model, handles authentication, retries, and error mapping.",
        rationale |-> "A client wrapper is your Anti-Corruption Layer for external systems. It provides a stable internal interface even when the external API changes.",
        examples |-> << [label |-> "Good", language |-> "typescript"],
                        [label |-> "Bad", language |-> "typescript"] >>,
        tags |-> << "integration", "client", "wrapper", "api", "external", "adapter" >>,
        cleanCodeRefs |-> << [relationship |-> "implements", principleId |-> "data-abstraction"],
                             [relationship |-> "complements", principleId |-> "use-exceptions-not-return-codes"] >>],
       [id |-> "integration-change-isolation",
        name |-> "Integration Change Isolation",
        category |-> "external-integrations",
        description |-> "When an external system changes (new API version, provider switch), only the integration module should need to change. No business logic or other modules should be affected.",
        rationale |-> "This is the payoff of proper integration isolation. Switching from SendGrid to Mailgun or upgrading Stripe API v1 to v2 becomes a localized change.",
        examples |-> << [label |-> "Good", language |-> "typescript"],
                        [label |-> "Bad", language |-> "typescript"] >>,
        tags |-> << "integration", "change", "isolation", "provider", "swap" >>,
        cleanCodeRefs |-> << [relationship |-> "implements", principleId |-> "open-closed-principle"] >>],
       [id |-> "strangler-fig-pattern",
        name |-> "Strangler Fig Pattern",
        category |-> "migration",
        description |-> "Migrate from legacy to modular architecture incrementally. New features go into proper modules. Legacy code is gradually replaced module by module, never in a big-bang rewrite.",
        rationale |-> "Big-bang rewrites have a high failure rate. Strangler fig allows continuous delivery while migrating, and each step delivers value.",
        examples |-> << [label |-> "Good", language |-> "text"],
                        [label |-> "Bad", language |-> "text"] >>,
        tags |-> << "migration", "strangler", "incremental", "legacy", "rewrite" >>,
        cleanCodeRefs |-> << [relationship |-> "complements", principleId |-> "simple-design-runs-all-tests"] >>,
        source |-> "Martin Fowler ~ Strangler Fig Application"],
       [id |-> "extract-module-gradually",
        name |-> "Extract Module Gradually",
        category |-> "migration",
        description |-> "When extracting code into a module, do it gradually: first identify the boundary, then move code behind a public API, then enforce the boundary. Don't try to extract and refactor simultaneously.",
        rationale |-> "Gradual extraction reduces risk. Each step is small, reviewable, and reversible. Trying to extract and perfect at the same time leads to scope creep.",
        examples |-> << [label |-> "Good", language |-> "text"],
                        [label |-> "Bad", language |-> "text"] >>,
        tags |-> << "migration", "extraction", "gradual", "refactoring", "boundary" >>,
        cleanCodeRefs |-> << [relationship |-> "reinforces", principleId |-> "do-one-thing"] >>],
       [id |-> "start-monolith-first",
        name |-> "Start Monolith First",
        category |-> "migration",
        description |-> "Start with a monolithic architecture and modularize when complexity justifies it. Premature modularization adds overhead without value. Wait until you understand the domain boundaries.",
        rationale |-> "Early in a project, domain boundaries are unclear. Starting with a monolith lets you discover real boundaries through usage. Modularize when you have evidence, not assumptions.",
        examples |-> << [label |-> "Good", language |-> "text"],
                        [label |-> "Bad", language |-> "text"] >>,
        tags |-> << "migration", "monolith", "start", "premature", "boundaries" >>,
        cleanCodeRefs |-> << [relationship |-> "reinforces", principleId |-> "simple-design-minimal"] >>,
        source |-> "Martin Fowler ~ MonolithFirst"],
       [id |-> "measure-before-splitting",
        name |-> "Measure Before Splitting",
        category |-> "migration",
        description |-> "Before extracting a module or splitting to a service, measure coupling and cohesion. Use dependency analysis, change frequency, and team ownership to decide. Data-driven decisions, not gut feelings.",
        rationale |-> "Splitting based on instinct often creates distributed monoliths. Measuring coupling and cohesion provides evidence for where real boundaries exist.",
        examples |-> << [label |-> "Good", language |-> "text"],
                        [label |-> "Bad", language |-> "text"] >>,
        tags |-> << "migration", "measure", "coupling", "cohesion", "split", "metrics" >>,
        cleanCodeRefs |-> << [relationship |-> "reinforces", principleId |-> "high-cohesion"] >>] >>

AntiPatternsData ==
    << [id |-> "shared-database-anti-pattern",
        name |-> "Shared Database",
        category |-> "data-isolation",
        description |-> "Multiple modules read from and write to the same database tables directly. This creates invisible coupling where schema changes in one module break others. Each module must own its data exclusively.",
        examples |-> << [label |-> "Bad", language |-> "typescript"],
                        [label |-> "Good", language |-> "typescript"] >>,
        tags |-> << "anti-pattern", "database", "shared", "coupling", "data" >>,
        cleanCodeRefs |-> << [relationship |-> "reinforces", principleId |-> "avoid-inappropriate-intimacy"] >>],
       [id |-> "god-module",
        name |-> "God Module",
        category |-> "module-structure",
        description |-> "A single module that handles too many responsibilities with no clear boundary. It grows indefinitely because no one knows where else to put new code. Split by business domain.",
        examples |-> << [label |-> "Bad", language |-> "text"],
                        [label |-> "Good", language |-> "text"] >>,
        tags |-> << "anti-pattern", "god-module", "responsibility", "boundary", "split" >>,
        cleanCodeRefs |-> << [relationship |-> "reinforces", principleId |-> "single-responsibility-principle"],
                             [relationship |-> "extends", principleId |-> "classes-should-be-small"] >>],
       [id |-> "circular-dependency",
        name |-> "Circular Dependency",
        category |-> "dependency-management",
        description |-> "Module A depends on B, and B depends on A (directly or transitively). This makes both modules impossible to understand, test, or deploy independently. Break cycles with events or interfaces.",
        examples |-> << [label |-> "Bad", language |-> "typescript"],
                        [label |-> "Good", language |-> "typescript"] >>,
        tags |-> << "anti-pattern", "circular", "cycle", "dependency", "coupling" >>,
        cleanCodeRefs |-> << [relationship |-> "implements", principleId |-> "dependency-inversion-principle"] >>],
       [id |-> "business-logic-in-routes",
        name |-> "Business Logic in Routes",
        category |-> "routes-and-controllers",
        description |-> "Route handlers contain business logic, database queries, and complex transformations instead of delegating to a service. Makes logic untestable and unreusable.",
        examples |-> << [label |-> "Bad", language |-> "typescript"],
                        [label |-> "Good", language |-> "typescript"] >>,
        tags |-> << "anti-pattern", "route", "business-logic", "fat-controller" >>,
        cleanCodeRefs |-> << [relationship |-> "reinforces", principleId |-> "do-one-thing"],
                             [relationship |-> "reinforces", principleId |-> "keep-functions-small"] >>],
       [id |-> "leaky-abstraction",
        name |-> "Leaky Abstraction",
        category |-> "module-boundaries",
        description |-> "Module's public API leaks internal implementation details: Prisma models, internal error types, database column names, or infrastructure types. The public API should expose only domain concepts.",
        examples |-> << [label |-> "Bad", language |-> "typescript"],
                        [label |-> "Good", language |-> "typescript"] >>,
        tags |-> << "anti-pattern", "leaky", "abstraction", "boundary", "implementation" >>,
        cleanCodeRefs |-> << [relationship |-> "reinforces", principleId |-> "data-abstraction"] >>],
       [id |-> "cross-module-direct-import",
        name |-> "Cross-Module Direct Import",
        category |-> "module-communication",
        description |-> "Importing internal files from another module instead of using its public API (index.ts). This bypasses the module boundary and creates tight coupling to implementation details.",
        examples |-> << [label |-> "Bad", language |-> "typescript"],
                        [label |-> "Good", language |-> "typescript"] >>,
        tags |-> << "anti-pattern", "import", "direct", "boundary", "violation" >>,
        cleanCodeRefs |-> << [relationship |-> "reinforces", principleId |-> "law-of-demeter"] >>],
       [id |-> "cross-module-db-access",
        name |-> "Cross-Module DB Access",
        category |-> "data-isolation",
        description |-> "One module directly queries or modifies another module's database tables. Even read-only access is a violation because it couples to the schema.",
        examples |-> << [label |-> "Bad", language |-> "typescript"],
                        [label |-> "Good", language |-> "typescript"] >>,
        tags |-> << "anti-pattern", "database", "cross-module", "query", "access" >>,
        cleanCodeRefs |-> << [relationship |-> "reinforces", principleId |-> "avoid-inappropriate-intimacy"] >>],
       [id |-> "distributed-monolith",
        name |-> "Distributed Monolith",
        category |-> "module-communication",
        description |-> "Modules are 'separated' in directories but completely coupled: synchronous calls everywhere, shared database, no clear boundaries. Worst of both worlds: complexity of distribution with rigidity of monolith.",
        examples |-> << [label |-> "Bad", language |-> "text"],
                        [label |-> "Good", language |-> "text"] >>,
        tags |-> << "anti-pattern", "distributed-monolith", "coupling", "separation" >>,
        cleanCodeRefs |-> << [relationship |-> "reinforces", principleId |-> "high-cohesion"] >>],
       [id |-> "anemic-module",
        name |-> "Anemic Module",
        category |-> "module-structure",
        description |-> "A module with no real business logic ~ it's just a pass-through that delegates everything to another module or the database. If a module adds no value, it shouldn't exist.",
        examples |-> << [label |-> "Bad", language |-> "typescript"],
                        [label |-> "Good", language |-> "typescript"] >>,
        tags |-> << "anti-pattern", "anemic", "pass-through", "no-logic", "crud" >>,
        cleanCodeRefs |-> << [relationship |-> "extends", principleId |-> "avoid-feature-envy"] >>],
       [id |-> "feature-envy-module",
        name |-> "Feature Envy Module",
        category |-> "module-structure",
        description |-> "A module that uses more data and behavior from another module than from its own. This suggests the logic belongs in the other module, or the boundary is drawn incorrectly.",
        examples |-> << [label |-> "Bad", language |-> "typescript"],
                        [label |-> "Good", language |-> "typescript"] >>,
        tags |-> << "anti-pattern", "feature-envy", "boundary", "misplaced-logic" >>,
        cleanCodeRefs |-> << [relationship |-> "extends", principleId |-> "avoid-feature-envy"] >>],
       [id |-> "premature-extraction",
        name |-> "Premature Extraction",
        category |-> "migration",
        description |-> "Extracting code into a module before understanding the real boundaries. Premature modules often have the wrong boundaries and need to be merged or restructured later.",
        examples |-> << [label |-> "Bad", language |-> "text"],
                        [label |-> "Good", language |-> "text"] >>,
        tags |-> << "anti-pattern", "premature", "extraction", "boundary", "early" >>,
        cleanCodeRefs |-> << [relationship |-> "reinforces", principleId |-> "simple-design-minimal"] >>],
       [id |-> "shared-everything-kernel",
        name |-> "Shared Everything Kernel",
        category |-> "shared-kernel",
        description |-> "A shared kernel that contains implementations, utilities, helpers, and business logic instead of just types and infrastructure. Becomes a coupling magnet that every module depends on.",
        examples |-> << [label |-> "Bad", language |-> "text"],
                        [label |-> "Good", language |-> "text"] >>,
        tags |-> << "anti-pattern", "shared-kernel", "coupling", "utility", "implementation" >>,
        cleanCodeRefs |-> << [relationship |-> "reinforces", principleId |-> "interface-segregation-principle"] >>],
       [id |-> "event-soup",
        name |-> "Event Soup",
        category |-> "module-communication",
        description |-> "Too many events without clear naming, documentation, or traceability. When everything communicates via events, it becomes impossible to understand the flow. Use events for decoupling, not for everything.",
        examples |-> << [label |-> "Bad", language |-> "typescript"],
                        [label |-> "Good", language |-> "typescript"] >>,
        tags |-> << "anti-pattern", "events", "soup", "naming", "traceability" >>,
        cleanCodeRefs |-> << [relationship |-> "reinforces", principleId |-> "use-intention-revealing-names"] >>],
       [id |-> "tight-temporal-coupling",
        name |-> "Tight Temporal Coupling",
        category |-> "module-communication",
        description |-> "Modules that depend on a specific execution order: module A must initialize before B, or operation X must complete before Y. This creates fragile, hard-to-debug systems.",
        examples |-> << [label |-> "Bad", language |-> "typescript"],
                        [label |-> "Good", language |-> "typescript"] >>,
        tags |-> << "anti-pattern", "temporal", "coupling", "order", "initialization" >>,
        cleanCodeRefs |-> << [relationship |-> "reinforces", principleId |-> "avoid-side-effects-in-functions"] >>],
       [id |-> "hidden-dependency",
        name |-> "Hidden Dependency",
        category |-> "dependency-management",
        description |-> "Modules depend on each other through global state, environment variables, or shared singletons instead of explicit imports. These invisible dependencies make the system unpredictable.",
        examples |-> << [label |-> "Bad", language |-> "typescript"],
                        [label |-> "Good", language |-> "typescript"] >>,
        tags |-> << "anti-pattern", "hidden", "dependency", "global", "state", "implicit" >>,
        cleanCodeRefs |-> << [relationship |-> "reinforces", principleId |-> "avoid-side-effects-in-functions"],
                             [relationship |-> "reinforces", principleId |-> "use-dependency-injection"] >>],
       [id |-> "inconsistent-boundaries",
        name |-> "Inconsistent Boundaries",
        category |-> "module-boundaries",
        description |-> "Some parts of a module have clear boundaries (public API, DTOs) while others leak internals. Partial boundaries are worse than none because they create false confidence.",
        examples |-> << [label |-> "Bad", language |-> "typescript"],
                        [label |-> "Good", language |-> "typescript"] >>,
        tags |-> << "anti-pattern", "boundary", "inconsistent", "partial", "leaky" >>,
        cleanCodeRefs |-> << [relationship |-> "reinforces", principleId |-> "simple-design-expressive"] >>] >>

\* Trees whose first one asks its second question again on a "no".
DecisionTreesLooping ==
    << [id |-> "create-vs-expand-module",
        name |-> "Create New Module vs Expand Existing",
        description |-> "Helps decide.",
        nodes |-> << [id |-> "start", question |-> "A different domain?",
                      yes |-> "different-lifecycle", no |-> "ANSWER: Expand."],
                     [id |-> "different-lifecycle", question |-> "A different lifecycle?",
                      yes |-> "ANSWER: Create a new module.", no |-> "different-team"],
                     [id |-> "different-team", question |-> "A different team?",
                      yes |-> "ANSWER: Create a new module.",
                      no |-> "different-lifecycle"] >>],
       [id |-> "sync-vs-async-communication",
        name |-> "Synchronous vs Asynchronous Communication",
        description |-> "Helps decide.",
        nodes |-> << [id |-> "start", question |-> "Is the result needed now?",
                      yes |-> "ANSWER: Use synchronous service call.",
                      no |-> "ANSWER: Use async events."] >>],
       [id |-> "when-to-extract-microservice",
        name |-> "When to Extract a Microservice",
        description |-> "Helps decide.",
        nodes |-> << [id |-> "start", question |-> "Does it scale differently?",
                      yes |-> "ANSWER: Extract to microservice.",
                      no |-> "ANSWER: Keep as module in the monolith."] >>] >>

DecisionTreesData ==
    << [id |-> "create-vs-expand-module",
        name |-> "Create New Module vs Expand Existing",
        description |-> "Helps decide whether new functionality should become a new module or be added to an existing one.",
        nodes |-> << [id |-> "start",
                     question |-> "Does the new functionality belong to a different business domain than any existing module?",
                     yes |-> "different-lifecycle",
                     no |-> "existing-cohesion"],
                    [id |-> "different-lifecycle",
                     question |-> "Does it have a different change frequency or deployment lifecycle?",
                     yes |-> "ANSWER: Create a new module. Different domain + different lifecycle = clear boundary.",
                     no |-> "different-team"],
                    [id |-> "different-team",
                     question |-> "Will it be owned by a different team or developer?",
                     yes |-> "ANSWER: Create a new module. Different ownership justifies separation.",
                     no |-> "data-ownership"],
                    [id |-> "data-ownership",
                     question |-> "Does it own its own data (new tables/collections)?",
                     yes |-> "ANSWER: Create a new module. Data ownership is a strong boundary signal.",
                     no |-> "ANSWER: Consider creating a new module, but it could also be a sub-feature of a related module. Start within the existing module and extract later if it grows."],
                    [id |-> "existing-cohesion",
                     question |-> "Is the existing module already large (>10 files or >1000 lines of business logic)?",
                     yes |-> "change-together",
                     no |-> "ANSWER: Expand the existing module. It's small enough and the functionality is cohesive."],
                    [id |-> "change-together",
                     question |-> "Does the new functionality change together with the existing code (same PRs, same features)?",
                     yes |-> "ANSWER: Expand the existing module. High change coupling means it belongs together.",
                     no |-> "ANSWER: Create a new module. The existing module is large and this functionality has different change reasons."] >>],
       [id |-> "sync-vs-async-communication",
        name |-> "Sync vs Async Communication",
        description |-> "Helps decide whether communication between modules should be synchronous (service call) or asynchronous (events).",
        nodes |-> << [id |-> "start",
                     question |-> "Does the caller need an immediate response to continue its operation?",
                     yes |-> "read-or-write",
                     no |-> "failure-tolerance"],
                    [id |-> "read-or-write",
                     question |-> "Is this a read/query operation (getting data)?",
                     yes |-> "ANSWER: Use synchronous service call. Reads naturally need immediate data. Import and call the module's service directly.",
                     no |-> "transactional"],
                    [id |-> "transactional",
                     question |-> "Does this need to be part of the same transaction (all-or-nothing)?",
                     yes |-> "ANSWER: Use synchronous service call. Transactional operations need immediate confirmation. Consider a saga pattern if the transaction spans multiple modules.",
                     no |-> "ANSWER: Consider async events. The write doesn't need immediate confirmation from the other module. Emit an event and let the other module handle it."],
                    [id |-> "failure-tolerance",
                     question |-> "Is it acceptable if the other module processes this later or even fails?",
                     yes |-> "multiple-consumers",
                     no |-> "ANSWER: Use synchronous service call. If failure is not acceptable, you need immediate confirmation."],
                    [id |-> "multiple-consumers",
                     question |-> "Could multiple modules need to react to this same event?",
                     yes |-> "ANSWER: Use async events. Multiple consumers is the strongest signal for events. Emit once, many modules can listen.",
                     no |-> "ANSWER: Use async events. Fire-and-forget with tolerance for delayed processing is a good fit for events."] >>],
       [id |-> "when-to-extract-microservice",
        name |-> "When to Extract to Microservice",
        description |-> "Helps decide whether a module in a modular monolith should be extracted into an independent microservice.",
        nodes |-> << [id |-> "start",
                     question |-> "Does this module need independent scaling (e.g., 10x more traffic than the rest)?",
                     yes |-> "team-ownership",
                     no |-> "independent-deploy"],
                    [id |-> "independent-deploy",
                     question |-> "Does this module need independent deployment (different release cycle)?",
                     yes |-> "team-ownership",
                     no |-> "tech-requirements"],
                    [id |-> "tech-requirements",
                     question |-> "Does this module require a different technology stack (different language, specialized DB)?",
                     yes |-> "boundary-clean",
                     no |-> "ANSWER: Keep as module in the monolith. There's no compelling reason to extract. The overhead of a separate service isn't justified."],
                    [id |-> "team-ownership",
                     question |-> "Is there a dedicated team that will own this service end-to-end?",
                     yes |-> "boundary-clean",
                     no |-> "ANSWER: Keep as module for now. Without a dedicated team, a microservice becomes an orphan. Invest in team structure first."],
                    [id |-> "boundary-clean",
                     question |-> "Are the module boundaries already clean (public API, no shared DB, minimal sync calls)?",
                     yes |-> "ANSWER: Extract to microservice. You have clean boundaries, a good reason, and team ownership. The module is ready.",
                     no |-> "ANSWER: Clean up boundaries first, then extract. Extracting a module with leaky boundaries creates a distributed monolith. First: enforce public API, remove shared DB access, minimize coupling. Then extract."] >>] >>

(***************************************************************************)
(* The state.  RULES, ANTI_PATTERNS and DECISION_TREES are the module-     *)
(* level arrays of the catalog: JavaScript arrays are mutable, so they are *)
(* state, and every handler says what it leaves in them.  call is the last *)
(* invocation (the function or handler and its arguments) and result what  *)
(* it returned.  fs is the file system the validation tools read, and      *)
(* inflight the tool calls that were started and have not returned, each   *)
(* with the locals of its handler and the await it is suspended at.        *)
(***************************************************************************)
VARIABLES RULES, ANTI_PATTERNS, DECISION_TREES, call, result, fs, inflight

vars == <<RULES, ANTI_PATTERNS, DECISION_TREES, call, result, fs, inflight>>

catalog == <<RULES, ANTI_PATTERNS, DECISION_TREES>>

\* What a handler that runs to completion without an await leaves alone.
surroundings == <<fs, inflight>>

(***************************************************************************)
(* rule-search/scoring.ts                                                  *)
(***************************************************************************)

SCORE_WEIGHTS ==
    [EXACT_ID_MATCH |-> 100,
     NAME_CONTAINS |-> 80,
     TAG_EXACT |-> 70,
     TAG_PARTIAL |-> 50,
     DESCRIPTION_CONTAINS |-> 30,
     CATEGORY_MATCH |-> 20]

CATEGORY_BOOST_MULTIPLIER == 15

\* A tag scorer whose two branches are cumulative: an equal tag adds the
\* exact and the partial weight.
tagScoreCumulative(tag, normalizedQuery) ==
    (IF tag = normalizedQuery THEN SCORE_WEIGHTS.TAG_EXACT ELSE 0)
    + (IF includes(tag, normalizedQuery) \/ includes(normalizedQuery, tag)
         THEN SCORE_WEIGHTS.TAG_PARTIAL ELSE 0)

\* The body of the loop over rule.tags: what one tag adds to the score.
tagScore(tag, normalizedQuery) ==
    IF tag = normalizedQuery
      THEN SCORE_WEIGHTS.TAG_EXACT
      ELSE IF includes(tag, normalizedQuery) \/ includes(normalizedQuery, tag)
             THEN SCORE_WEIGHTS.TAG_PARTIAL
             ELSE 0

\* The loop over rule.tags, adding to the score so far.
RECURSIVE scoreTags(_, _, _)
scoreTags(tags, normalizedQuery, score) ==
    IF tags = << >> THEN score
    ELSE scoreTags(Tail(tags), normalizedQuery,
                   score + tagScore(Head(tags), normalizedQuery))

\* A scorer in which a category match replaces what the other fields scored.
scoreFieldsCategoryReplaces(rule, normalizedQuery) ==
    IF includes(rule.category, normalizedQuery)
      THEN SCORE_WEIGHTS.CATEGORY_MATCH
      ELSE (IF includes(toLowerCase(rule.name), normalizedQuery)
              THEN SCORE_WEIGHTS.NAME_CONTAINS ELSE 0)
           + scoreTags(rule.tags, normalizedQuery, 0)
           + (IF includes(toLowerCase(rule.description), normalizedQuery)
                THEN SCORE_WEIGHTS.DESCRIPTION_CONTAINS ELSE 0)

\* scoreRuleByQuery past its early return: the score accumulated over the
\* name, the tags, the description and the category.
scoreFields(rule, normalizedQuery) ==
    LET score0 == 0
        score1 == IF includes(toLowerCase(rule.name), normalizedQuery)
                    THEN score0 + SCORE_WEIGHTS.NAME_CONTAINS ELSE score0
        score2 == scoreTags(rule.tags, normalizedQuery, score1)
        score3 == IF includes(toLowerCase(rule.description), normalizedQuery)
                    THEN score2 + SCORE_WEIGHTS.DESCRIPTION_CONTAINS ELSE score2
        score4 == IF includes(rule.category, normalizedQuery)
                    THEN score3 + SCORE_WEIGHTS.CATEGORY_MATCH ELSE score3
    IN  score4

\* A scorer without the early return: the id weight is one more summand.
scoreRuleByQueryIdAdds(rule, query) ==
    LET normalizedQuery == trim(toLowerCase(query))
    IN  (IF rule.id = normalizedQuery THEN SCORE_WEIGHTS.EXACT_ID_MATCH ELSE 0)
        + scoreFields(rule, normalizedQuery)

scoreRuleByQuery(rule, query) ==
    LET normalizedQuery == trim(toLowerCase(query))
    IN  IF rule.id = normalizedQuery
          THEN SCORE_WEIGHTS.EXACT_ID_MATCH
          ELSE scoreFields(rule, normalizedQuery)

\* A lookup whose default is 1: a category without a boost still counts.
boostOfDefaultOne(categoryBoosts, category) ==
    IF category \in DOMAIN categoryBoosts THEN categoryBoosts[category] ELSE 1

\* Map.prototype.get(key) ?? 0, a Map being a function on its keys.
boostOf(categoryBoosts, category) ==
    IF category \in DOMAIN categoryBoosts THEN categoryBoosts[category] ELSE 0

\* The loop over tokens, adding to the score so far.
RECURSIVE scoreTokens(_, _, _)
scoreTokens(rule, tokens, score) ==
    IF tokens = << >> THEN score
    ELSE scoreTokens(rule, Tail(tokens),
                     score + scoreRuleByQuery(rule, Head(tokens)))

\* A token scorer over the set of the tokens: a repeated token counts once.
scoreRuleByTokensOncePerToken(rule, tokens, categoryBoosts) ==
    SumSeq([i \in 1..Len(tokens) |->
               IF \E j \in 1..(i - 1) : tokens[j] = tokens[i]
                 THEN 0
                 ELSE scoreRuleByQuery(rule, tokens[i])])
    + boostOf(categoryBoosts, rule.category) * CATEGORY_BOOST_MULTIPLIER

scoreRuleByTokens(rule, tokens, categoryBoosts) ==
    LET score == scoreTokens(rule, tokens, 0)
        boost == boostOf(categoryBoosts, rule.category)
    IN  score + boost * CATEGORY_BOOST_MULTIPLIER

\* rules.map((rule) => ({ rule, score: scoreFn(rule) })); scoreFn is a function
\* on the entries of rules.
mapScored(rules, scoreFn) ==
    [i \in 1..Len(rules) |-> [rule |-> rules[i], score |-> scoreFn[rules[i]]]]

\* A filter predicate that lets a score of 0 through.
keepsScoredNonNegative(entry) == entry.score >= 0

\* The predicate of the filter: ({ score }) => score > 0
keepsScored(entry) == entry.score > 0

\* .filter(({ score }) => score > 0)
RECURSIVE filterScored(_)
filterScored(scored) ==
    IF scored = << >> THEN << >>
    ELSE (IF keepsScored(Head(scored)) THEN <<Head(scored)>> ELSE << >>)
         \o filterScored(Tail(scored))

\* A comparator for ascending scores.
compareScoredAscending(a, b) == a.score - b.score

\* The comparator of the sort: negative when a goes before b.
compareScored(a, b) == b.score - a.score

\* One step of the sort: x, which followed every element of sorted in the
\* array, is placed behind every element that does not have to follow it.
RECURSIVE insertScored(_, _)
insertScored(sorted, x) ==
    IF sorted = << >> THEN <<x>>
    ELSE IF compareScored(Head(sorted), x) <= 0
           THEN <<Head(sorted)>> \o insertScored(Tail(sorted), x)
           ELSE <<x>> \o sorted

\* Array.prototype.sort with compareScored.  The sort of the runtime is stable
\* (ECMAScript 2019, and the module needs a later runtime for its top-level
\* await): elements that compare equal keep their order.
RECURSIVE sortScoredFrom(_, _)
sortScoredFrom(scored, sorted) ==
    IF scored = << >> THEN sorted
    ELSE sortScoredFrom(Tail(scored), insertScored(sorted, Head(scored)))

\* A sort that orders by score but turns the order of equal scores around.
RECURSIVE insertBeforeEquals(_, _)
insertBeforeEquals(sorted, x) ==
    IF sorted = << >> THEN <<x>>
    ELSE IF compareScored(Head(sorted), x) < 0
           THEN <<Head(sorted)>> \o insertBeforeEquals(Tail(sorted), x)
           ELSE <<x>> \o sorted

RECURSIVE sortBeforeEqualsFrom(_, _)
sortBeforeEqualsFrom(scored, sorted) ==
    IF scored = << >> THEN sorted
    ELSE sortBeforeEqualsFrom(Tail(scored), insertBeforeEquals(sorted, Head(scored)))

sortScoredTiesReversed(scored) == sortBeforeEqualsFrom(scored, << >>)

sortScored(scored) == sortScoredFrom(scored, << >>)

\* rankRules, with the scores of its result: the array before the final
\* .map(({ rule }) => rule).
rankScored(rules, scoreFn) == sortScored(filterScored(mapScored(rules, scoreFn)))

rankRules(rules, scoreFn) ==
    LET ranked == rankScored(rules, scoreFn)
    IN  [i \in 1..Len(ranked) |-> ranked[i].rule]

\* A ranker that filters and sorts the array it was given, in place.
rankRulesInputSorted(rules, scoreFn) == rankRules(rules, scoreFn)

\* The array passed to rankRules as the call leaves it: map allocates a new
\* array, and filter, sort and map work on that one.
rankRulesInputAfter(rules, scoreFn) == rules

(***************************************************************************)
(* rule-search/tokenizer.ts                                                *)
(***************************************************************************)

STOP_WORDS ==
    { "a", "an", "the", "is", "it", "to", "in", "of", "and", "or", "for", "on",
      "at", "by", "be", "as", "do", "if", "my", "no", "not", "but", "was",
      "are", "has", "had", "can", "how", "what", "when", "this", "that",
      "with", "from", "have", "will", "been", "they", "them", "then", "than",
      "some", "should", "would", "could", "about", "which", "there", "where",
      "their", "other", "into", "very", "just", "also", "more", "like",
      "want", "need", "i", "me", "we", "you" }

KeywordsOf(category) ==
    CASE category = "module-structure" ->
           { "module", "modules", "structure", "layout", "organize",
             "organization", "directory", "folder" }
      [] category = "module-boundaries" ->
           { "boundary", "boundaries", "api", "facade", "encapsulation",
             "contract", "public", "barrel" }
      [] category = "module-communication" ->
           { "communication", "event", "events", "messaging", "sync", "async",
             "event-bus" }
      [] category = "data-isolation" ->
           { "data", "database", "schema", "isolation", "ownership", "table",
             "tables", "join", "prisma" }
      [] category = "dependency-management" ->
           { "dependency", "dependencies", "coupling", "acyclic", "circular",
             "cycle", "dag" }
      [] category = "routes-and-controllers" ->
           { "route", "routes", "controller", "handler", "thin", "endpoint" }
      [] category = "shared-kernel" ->
           { "shared", "kernel", "common", "duplication" }
      [] category = "testing-strategy" ->
           { "test", "testing", "tests", "mock", "contract-test" }
      [] category = "external-integrations" ->
           { "external", "client", "wrapper", "integration", "provider" }
      [] category = "migration" ->
           { "migration", "strangler", "extract", "legacy", "monolith",
             "microservice", "split" }

\* The own properties of the object literal CATEGORY_KEYWORDS.
CATEGORY_KEYWORDS ==
    [k \in UNION {KeywordsOf(c) : c \in CategorySet} |->
        CHOOSE c \in CategorySet : k \in KeywordsOf(c)]

\* What a property read of a plain object yields for a key that is no own
\* property: the property inherited from Object.prototype, if the key names
\* one.  Among the keys that are tokens (lower-case letters, digits, hyphens)
\* that is "constructor", whose value is a function and so truthy.
ObjectConstructor == "[Function: Object]"

\* The value undefined where a string is expected.
undefined == "undefined"

\* CATEGORY_KEYWORDS[token]
keywordLookup(token) ==
    IF token \in DOMAIN CATEGORY_KEYWORDS THEN CATEGORY_KEYWORDS[token]
    ELSE IF token = "constructor" THEN ObjectConstructor
    ELSE undefined

TokenChars == CharsOf(LowerLetters) \cup CharsOf(Digits) \cup {"-"}

\* The concatenation of a sequence of strings, computed half by half.
RECURSIVE concatAll(_)
concatAll(strs) ==
    IF Len(strs) = 0 THEN ""
    ELSE IF Len(strs) = 1 THEN strs[1]
    ELSE LET half == Len(strs) \div 2
         IN  concatAll(SubSeq(strs, 1, half))
               \o concatAll(SubSeq(strs, half + 1, Len(strs)))

\* .replace(/[^a-z0-9\-]+/g, " "): every maximal run of characters that are
\* no token characters becomes one space.
replaceNonTokenRuns(s) ==
    concatAll([i \in 1..Len(s) |->
        IF charAt(s, i) \in TokenChars THEN charAt(s, i)
        ELSE IF i = 1 \/ charAt(s, i - 1) \in TokenChars THEN " "
        ELSE ""])

\* The elements of a finite set of integers in increasing order.
RECURSIVE sortedSeqOf(_)
sortedSeqOf(S) ==
    IF S = {} THEN << >>
    ELSE LET m == CHOOSE x \in S : \A y \in S : x <= y
         IN  <<m>> \o sortedSeqOf(S \ {m})

\* .split(/\s+/): the pieces between the maximal runs of white space, with an
\* empty piece before a leading run and after a trailing one; the empty
\* string splits into one empty piece.
splitWhiteSpace(s) ==
    LET n == Len(s)
        isSpace(i) == charAt(s, i) \in WhiteSpace
        starts == {i \in 1..n : ~isSpace(i) /\ (i = 1 \/ isSpace(i - 1))}
        endOf(i) == CHOOSE j \in i..n :
                        /\ \A k \in i..j : ~isSpace(k)
                        /\ (j = n \/ isSpace(j + 1))
        order == sortedSeqOf(starts)
        pieces == [k \in 1..Len(order) |-> SubSeq(s, order[k], endOf(order[k]))]
    IN  IF n = 0 THEN <<"">>
        ELSE (IF isSpace(1) THEN <<"">> ELSE << >>)
             \o pieces
             \o (IF isSpace(n) THEN <<"">> ELSE << >>)

\* A filter predicate that drops the empty pieces only.
isNonEmptyToken(token) == Len(token) > 0

\* The predicate of tokenize's filter: (token) => token.length > 1
isLongToken(token) == Len(token) > 1

\* .filter((token) => token.length > 1)
RECURSIVE filterLongTokens(_)
filterLongTokens(tokens) ==
    IF tokens = << >> THEN << >>
    ELSE (IF isLongToken(Head(tokens)) THEN <<Head(tokens)>> ELSE << >>)
         \o filterLongTokens(Tail(tokens))

tokenize(text) ==
    filterLongTokens(splitWhiteSpace(replaceNonTokenRuns(toLowerCase(text))))

\* A stop-word test that takes every short token for a stop word.
isStopWordOrShort(token) == token \in STOP_WORDS \/ Len(token) < 5

\* STOP_WORDS.has(token)
isStopWord(token) == token \in STOP_WORDS

RECURSIVE removeStopWords(_)
removeStopWords(tokens) ==
    IF tokens = << >> THEN << >>
    ELSE (IF ~isStopWord(Head(tokens)) THEN <<Head(tokens)>> ELSE << >>)
         \o removeStopWords(Tail(tokens))

\* The loop of detectCategoryBoosts over the tokens; boosts is the Map so far,
\* a function on its keys.
RECURSIVE detectFrom(_, _)
detectFrom(tokens, boosts) ==
    IF tokens = << >> THEN boosts
    ELSE LET category == keywordLookup(Head(tokens))
             current == boostOf(boosts, category)
         IN  IF category # undefined
               THEN detectFrom(Tail(tokens),
                        [k \in DOMAIN boosts \cup {category} |->
                            IF k = category THEN current + 1 ELSE boosts[k]])
               ELSE detectFrom(Tail(tokens), boosts)

\* The empty Map.
EmptyMap == [k \in {} |-> 0]

detectCategoryBoosts(tokens) == detectFrom(tokens, EmptyMap)

(***************************************************************************)
(* rule-catalog/rule-formatter.ts.  A formatted text is the sequence of    *)
(* its lines.                                                              *)
(***************************************************************************)

\* The line that stands for the code of an example.
ExampleCode == "<code>"

\* The text that stands for the note of a clean-code reference.
RefNote == "<note>"

\* The concatenation of a sequence of sequences, in order.
RECURSIVE flatten(_)
flatten(seqs) ==
    IF seqs = << >> THEN << >> ELSE Head(seqs) \o flatten(Tail(seqs))

\* Array.prototype.join on strings.
RECURSIVE joinStrings(_, _)
joinStrings(strs, sep) ==
    IF strs = << >> THEN ""
    ELSE IF Len(strs) = 1 THEN strs[1]
    ELSE strs[1] \o sep \o joinStrings(Tail(strs), sep)

formatExample(example) ==
    << "",
       "**" \o example.label \o ":**",
       "",
       "|||" \o example.language,
       ExampleCode,
       "|||" >>

formatCleanCodeRef(ref) ==
    << "- **" \o ref.relationship \o "** |" \o ref.principleId \o "| ~ " \o RefNote,
       "  _Use: search-principle \"" \o ref.principleId \o "\" in clean-code-mcp_" >>

\* The two optional sections shared by both detailed formats.
examplesSection(item) ==
    IF Len(item.examples) > 0
      THEN <<"", "### Examples">>
           \o flatten([i \in 1..Len(item.examples) |-> formatExample(item.examples[i])])
      ELSE << >>

cleanCodeSection(item) ==
    IF Len(item.cleanCodeRefs) > 0
      THEN <<"", "### Related Clean Code Principles">>
           \o flatten([i \in 1..Len(item.cleanCodeRefs) |->
                          formatCleanCodeRef(item.cleanCodeRefs[i])])
      ELSE << >>

\* if (rule.source): the property is present and not the empty string.
hasSource(rule) == "source" \in DOMAIN rule /\ rule.source # ""

formatRuleAsMarkdown(rule) ==
    << "## " \o rule.name,
       "",
       "**Category:** " \o CATEGORY_LABELS[rule.category],
       "**ID:** |" \o rule.id \o "|",
       "",
       rule.description,
       "",
       "**Rationale:** " \o rule.rationale >>
    \o examplesSection(rule)
    \o cleanCodeSection(rule)
    \o <<"", "**Tags:** " \o joinStrings(rule.tags, ", ")>>
    \o (IF hasSource(rule) THEN <<"**Source:** " \o rule.source>> ELSE << >>)

formatAntiPatternAsMarkdown(ap) ==
    << "## ! Anti-Pattern: " \o ap.name,
       "",
       "**Category:** " \o CATEGORY_LABELS[ap.category],
       "**ID:** |" \o ap.id \o "|",
       "",
       ap.description >>
    \o examplesSection(ap)
    \o cleanCodeSection(ap)
    \o <<"", "**Tags:** " \o joinStrings(ap.tags, ", ")>>

\* The default of truncateDescription's maxLength parameter.
DEFAULT_MAX_LENGTH == 100

\* A truncation that also cuts a description of exactly maxLength characters.
truncateDescriptionBelow(description, maxLength) ==
    IF Len(description) < maxLength THEN description
    ELSE trimEnd(SubSeq(description, 1, maxLength)) \o "..."

truncateDescription(description, maxLength) ==
    IF Len(description) <= maxLength THEN description
    ELSE trimEnd(SubSeq(description, 1, maxLength)) \o "..."

\* One line of formatRuleList's loop.
ruleListLine(rule) ==
    "- **" \o rule.name \o "** (|" \o rule.id \o "|) ~ "
        \o truncateDescription(rule.description, DEFAULT_MAX_LENGTH)

formatRuleList(rules) ==
    IF Len(rules) = 0 THEN <<"No rules found.">>
    ELSE <<"Found **" \o ToString(Len(rules)) \o "** rule(s):", "">>
         \o [i \in 1..Len(rules) |-> ruleListLine(rules[i])]

(***************************************************************************)
(* rule-search/format-results.ts                                           *)
(***************************************************************************)

MAX_DETAILED_RESULTS == 3

MAX_TOTAL_RESULTS == 10

\* antiPatterns.map((ap) => ({ ...ap, rationale: ap.description })): a new
\* array of new objects.
antiPatternsAsRules(antiPatterns) ==
    [i \in 1..Len(antiPatterns) |->
        [f \in DOMAIN antiPatterns[i] \cup {"rationale"} |->
            IF f = "rationale" THEN antiPatterns[i].description
            ELSE antiPatterns[i][f]]]

\* parts.join("\n\n---\n\n"), each part being a sequence of lines.
RECURSIVE joinParts(_)
joinParts(parts) ==
    IF parts = << >> THEN <<"">>
    ELSE IF Len(parts) = 1 THEN parts[1]
    ELSE parts[1] \o <<"", "---", "">> \o joinParts(Tail(parts))

\* options.maxTotal ?? MAX_TOTAL_RESULTS; an option left out is no field.
maxTotalOf(options) ==
    IF "maxTotal" \in DOMAIN options THEN options.maxTotal ELSE MAX_TOTAL_RESULTS

\* A result list that puts the anti-patterns before the rules.
taggedResultsAntiPatternsFirst(rankedRules, rankedAntiPatterns, maxTotal) ==
    slice([i \in 1..Len(rankedAntiPatterns) |->
              [type |-> "anti-pattern", item |-> rankedAntiPatterns[i]]]
            \o [i \in 1..Len(rankedRules) |-> [type |-> "rule", item |-> rankedRules[i]]],
          0, maxTotal)

\* The tagged, truncated result list of formatSearchResults.
taggedResults(rankedRules, rankedAntiPatterns, maxTotal) ==
    slice([i \in 1..Len(rankedRules) |-> [type |-> "rule", item |-> rankedRules[i]]]
            \o [i \in 1..Len(rankedAntiPatterns) |->
                   [type |-> "anti-pattern", item |-> rankedAntiPatterns[i]]],
          0, maxTotal)

\* An empty result that states the overflow header over the message.
emptyResultWithHeader(options) ==
    [content |-> <<[type |-> "text",
                    text |-> <<"### " \o options.remainingHeader,
                               options.emptyMessage>>]>>]

\* The result of formatSearchResults when there is nothing to show.
emptyResult(options) ==
    [content |-> <<[type |-> "text", text |-> <<options.emptyMessage>>]>>]

formatSearchResults(rankedRules, rankedAntiPatterns, options) ==
    LET maxTotal == maxTotalOf(options)
        allResults == taggedResults(rankedRules, rankedAntiPatterns, maxTotal)
        detailed == slice(allResults, 0, MAX_DETAILED_RESULTS)
        remaining == slice(allResults, MAX_DETAILED_RESULTS, maxTotal)
        parts == [i \in 1..Len(detailed) |->
                    IF detailed[i].type = "rule"
                      THEN formatRuleAsMarkdown(detailed[i].item)
                      ELSE formatAntiPatternAsMarkdown(detailed[i].item)]
        overflow == <<"", "---", "### " \o options.remainingHeader>>
                    \o formatRuleList([i \in 1..Len(remaining) |-> remaining[i].item])
        allParts == IF Len(remaining) > 0 THEN Append(parts, overflow) ELSE parts
    IN  IF Len(allResults) = 0
          THEN emptyResult(options)
          ELSE [content |-> <<[type |-> "text", text |-> joinParts(allParts)]>>]

(***************************************************************************)
(* rule-catalog/rules.ts, anti-patterns.ts, decision-trees.ts: lookups.    *)
(***************************************************************************)

\* The value undefined where an entry (a record) is expected.
undefinedEntry == [undefined |-> TRUE]

\* Array.prototype.find with the predicate "id equals": the first such
\* element, or undefined.
RECURSIVE findById(_, _)
findById(entries, id) ==
    IF entries = << >> THEN undefinedEntry
    ELSE IF Head(entries).id = id THEN Head(entries)
    ELSE findById(Tail(entries), id)

\* A lookup that lower-cases the id it is given.
findRuleByIdLowerCased(id) == findById(RULES, toLowerCase(id))

findRuleById(id) == findById(RULES, id)

findAntiPatternById(id) == findById(ANTI_PATTERNS, id)

findDecisionTreeById(id) == findById(DECISION_TREES, id)

\* rules.filter((rule) => categories.includes(rule.category))
RECURSIVE filterByCategories(_, _)
filterByCategories(rules, categories) ==
    IF rules = << >> THEN << >>
    ELSE (IF Head(rules).category \in categories THEN <<Head(rules)>> ELSE << >>)
         \o filterByCategories(Tail(rules), categories)

\* A filter that compares the first word of the category only.
filterByCategoryPrefix(category) ==
    LET SamePrefix(rule) == SubSeq(rule.category, 1, 6) = SubSeq(category, 1, 6)
    IN  SelectSeq(RULES, SamePrefix)

filterByCategory(category) == filterByCategories(RULES, {category})

\* A grouping that lists the categories in the order of CATEGORIES.
groupByCategoryFixedOrder(rules) ==
    LET Present(c) == \E i \in 1..Len(rules) : rules[i].category = c
        present == SelectSeq(CATEGORIES, Present)
    IN  [k \in 1..Len(present) |->
            [key |-> present[k], list |-> filterByCategories(rules, {present[k]})]]

\* The loop of groupByCategory: the Map so far is the sequence of its
\* entries [key, list] in insertion order; a rule is pushed on the list of
\* its category, which is appended when the category is new.
RECURSIVE groupFrom(_, _)
groupFrom(rules, grouped) ==
    IF rules = << >> THEN grouped
    ELSE LET rule == Head(rules)
             known == \E k \in 1..Len(grouped) : grouped[k].key = rule.category
             next == IF known
                       THEN [k \in 1..Len(grouped) |->
                               IF grouped[k].key = rule.category
                                 THEN [grouped[k] EXCEPT !.list = Append(@, rule)]
                                 ELSE grouped[k]]
                       ELSE Append(grouped, [key |-> rule.category, list |-> <<rule>>])
         IN  groupFrom(Tail(rules), next)

groupByCategory(rules) == groupFrom(rules, << >>)

\* The array passed to groupByCategory as the call leaves it: push acts on
\* the lists of the new Map only.
groupByCategoryInputAfter(rules) == rules

formatCatalogGrouped(rules) ==
    LET grouped == groupByCategory(rules)
    IN  <<"# Modular Monolith Architecture Rules Catalog", "">>
        \o flatten([g \in 1..Len(grouped) |->
              <<"## " \o CATEGORY_LABELS[grouped[g].key], "">>
              \o [i \in 1..Len(grouped[g].list) |->
                    "- **" \o grouped[g].list[i].name \o "** (|"
                        \o grouped[g].list[i].id \o "|)"]
              \o <<"">>])

\* catalog.resource.ts: buildGroupedCatalog, an object keyed by category
\* label, as the sequence of its properties in insertion order.
buildGroupedCatalog ==
    LET grouped == groupByCategory(RULES)
    IN  [g \in 1..Len(grouped) |->
            [key |-> CATEGORY_LABELS[grouped[g].key],
             list |-> [i \in 1..Len(grouped[g].list) |->
                          [id |-> grouped[g].list[i].id,
                           name |-> grouped[g].list[i].name]]]]

(***************************************************************************)
(* The handlers of the tools, resources and prompts.                       *)
(***************************************************************************)

MAX_CONTEXT_RESULTS == 8

RangeOf(seq) == {seq[i] : i \in 1..Len(seq)}

\* (rule) => scoreRuleByQuery(rule, query), on the entries of rules
queryScoreFn(rules, query) ==
    [rule \in RangeOf(rules) |-> scoreRuleByQuery(rule, query)]

\* (rule) => scoreRuleByTokens(rule, tokens, categoryBoosts)
tokenScoreFn(rules, tokens, categoryBoosts) ==
    [rule \in RangeOf(rules) |-> scoreRuleByTokens(rule, tokens, categoryBoosts)]

searchRuleOptions(query) ==
    [emptyMessage |-> "No rules or anti-patterns found for \"" \o query \o "\".",
     remainingHeader |-> "Other matches",
     maxTotal |-> MAX_TOTAL_RESULTS]

\* The search-rule handler.
searchRule(query) ==
    LET rankedRules == rankRules(RULES, queryScoreFn(RULES, query))
        asRules == antiPatternsAsRules(ANTI_PATTERNS)
        rankedAntiPatterns == rankRules(asRules, queryScoreFn(asRules, query))
    IN  formatSearchResults(rankedRules, rankedAntiPatterns, searchRuleOptions(query))

\* Options that show the detailed results only.
searchByContextOptionsDetailedOnly ==
    [emptyMessage |-> "No rules found matching that context.",
     remainingHeader |-> "Also relevant",
     maxTotal |-> MAX_DETAILED_RESULTS]

searchByContextOptions ==
    [emptyMessage |-> "No rules found matching that context.",
     remainingHeader |-> "Also relevant",
     maxTotal |-> MAX_CONTEXT_RESULTS]

\* The search-by-context handler.
searchByContext(context) ==
    LET tokens == removeStopWords(tokenize(context))
        categoryBoosts == detectCategoryBoosts(tokens)
        rankedRules == rankRules(RULES, tokenScoreFn(RULES, tokens, categoryBoosts))
        asRules == antiPatternsAsRules(ANTI_PATTERNS)
        rankedAntiPatterns ==
            rankRules(asRules, tokenScoreFn(asRules, tokens, categoryBoosts))
    IN  formatSearchResults(rankedRules, rankedAntiPatterns, searchByContextOptions)

textContent(lines) == [content |-> <<[type |-> "text", text |-> lines]>>]

\* The list-rules handler; args has a category field when one was supplied.
\* The empty string is falsy, so it counts as no category.
listRules(args) ==
    LET given == "category" \in DOMAIN args /\ args.category # ""
    IN  IF given /\ ~isValidCategory(args.category)
          THEN textContent(<<"Invalid category \"" \o args.category
                               \o "\". Valid categories: "
                               \o joinStrings(CATEGORIES, ", ")>>)
        ELSE IF given
          THEN textContent(formatRuleList(filterByCategory(args.category)))
        ELSE textContent(formatCatalogGrouped(RULES))

\* A resource's contents: JSON.stringify(value), held as the value.
jsonContents(uri, value) ==
    [contents |-> <<[uri |-> uri, json |-> value, mimeType |-> "application/json"]>>]

readCatalog == jsonContents("modular://catalog", buildGroupedCatalog)

readRule(id) ==
    LET rule == findRuleById(id)
    IN  IF rule = undefinedEntry
          THEN jsonContents("modular://rule/" \o id,
                            [error |-> "Rule \"" \o id \o "\" not found"])
          ELSE jsonContents("modular://rule/" \o id, rule)

readAntiPattern(id) ==
    LET ap == findAntiPatternById(id)
    IN  IF ap = undefinedEntry
          THEN jsonContents("modular://anti-pattern/" \o id,
                            [error |-> "Anti-pattern \"" \o id \o "\" not found"])
          ELSE jsonContents("modular://anti-pattern/" \o id, ap)

readDecisionTree(id) ==
    LET tree == findDecisionTreeById(id)
    IN  IF tree = undefinedEntry
          THEN jsonContents("modular://decision-tree/" \o id,
                            [error |-> "Decision tree \"" \o id \o "\" not found"])
          ELSE jsonContents("modular://decision-tree/" \o id, tree)

\* String.prototype.split(","): the pieces between the commas.
splitComma(s) ==
    LET n == Len(s)
        commas == sortedSeqOf({i \in 1..n : charAt(s, i) = ","})
        from(k) == IF k = 1 THEN 1 ELSE commas[k - 1] + 1
        to(k) == IF k = Len(commas) + 1 THEN n ELSE commas[k] - 1
    IN  [k \in 1..(Len(commas) + 1) |-> SubSeq(s, from(k), to(k))]

\* architecture-review.prompt.ts
DEFAULT_FOCUS_CATEGORIES ==
    << "module-boundaries", "module-communication", "data-isolation",
       "dependency-management" >>

\* module-design.prompt.ts
DESIGN_RELEVANT_CATEGORIES ==
    << "module-structure", "module-boundaries", "module-communication",
       "data-isolation" >>

\* raw.split(",").map((s) => s.trim()).filter(isValidCategory)
RECURSIVE trimmedValid(_)
trimmedValid(pieces) ==
    IF pieces = << >> THEN << >>
    ELSE (IF isValidCategory(trim(Head(pieces))) THEN <<trim(Head(pieces))>> ELSE << >>)
         \o trimmedValid(Tail(pieces))

\* args has a focus_categories field when one was supplied; the empty string
\* is falsy.
parseFocusCategories(args) ==
    IF "focus_categories" \notin DOMAIN args \/ args.focus_categories = ""
      THEN DEFAULT_FOCUS_CATEGORIES
      ELSE LET parsed == trimmedValid(splitComma(args.focus_categories))
           IN  IF Len(parsed) > 0 THEN parsed ELSE DEFAULT_FOCUS_CATEGORIES

\* relevantRules.map(formatRuleAsMarkdown).join("\n\n---\n\n")
rulesReference(relevantRules) ==
    joinParts([i \in 1..Len(relevantRules) |-> formatRuleAsMarkdown(relevantRules[i])])

\* The fixed instructions of a prompt, which no claim reads.
PromptInstructions == "<instructions>"

promptMessage(lines) ==
    [messages |-> <<[role |-> "user", content |-> [type |-> "text", text |-> lines]]>>]

\* The architecture-review prompt; the code to review is quoted unread.
architectureReview(args) ==
    LET categories == parseFocusCategories(args)
        relevantRules == filterByCategories(RULES, RangeOf(categories))
        languageHint == IF "language" \in DOMAIN args /\ args.language # ""
                          THEN " (" \o args.language \o ")" ELSE ""
    IN  promptMessage(
          << "# Modular Monolith Architecture Review",
             "",
             "Please review the following code" \o languageHint
                \o " against Modular Monolith architecture rules, focusing on these categories: **"
                \o joinStrings(categories, ", ") \o "**.",
             "",
             "## Code to Review",
             "",
             "|||",
             args.code,
             "|||",
             "",
             PromptInstructions,
             "",
             "## Architecture Rules Reference",
             "" >>
          \o rulesReference(relevantRules))

\* responsibilities.split(",").map((r) => "- " + r.trim())
responsibilityList(responsibilities) ==
    LET pieces == splitComma(responsibilities)
    IN  [k \in 1..Len(pieces) |-> "- " \o trim(pieces[k])]

\* The module-design prompt.
moduleDesign(args) ==
    LET relevantRules == filterByCategories(RULES, RangeOf(DESIGN_RELEVANT_CATEGORIES))
    IN  promptMessage(
          << "# Module Design: " \o args.module_name,
             "",
             "## Module Description",
             args.description,
             "",
             "## Responsibilities" >>
          \o responsibilityList(args.responsibilities)
          \o << "",
                PromptInstructions,
                "",
                "## Architecture Rules Reference",
                "" >>
          \o rulesReference(relevantRules))

(***************************************************************************)
(* node:path (POSIX) and node:fs/promises as the module-validation tools   *)
(* use them.  A path is a string.  The file system maps the absolute path  *)
(* of every entry to its node: a directory with the names readdir yields,  *)
(* in that order, a file with its lines, or an entry of another kind.      *)
(***************************************************************************)

\* String.prototype.endsWith
endsWith(s, suffix) ==
    Len(suffix) <= Len(s) /\ SubSeq(s, Len(s) - Len(suffix) + 1, Len(s)) = suffix

\* String.prototype.split(sep) for a separator of one character: the pieces
\* between its occurrences.
split(s, sep) ==
    LET n == Len(s)
        seps == sortedSeqOf({i \in 1..n : charAt(s, i) = sep})
        from(k) == IF k = 1 THEN 1 ELSE seps[k - 1] + 1
        to(k) == IF k = Len(seps) + 1 THEN n ELSE seps[k] - 1
    IN  [k \in 1..(Len(seps) + 1) |-> SubSeq(s, from(k), to(k))]

\* process.cwd(): the directory relative paths are resolved against.
cwd == "/srv"

\* normalizeString of node:path on the segments of a path: empty segments and
\* "." are dropped, ".." removes the segment before it, and is kept where
\* there is none only if the path may climb above its start.
RECURSIVE normalizeSegments(_, _, _)
normalizeSegments(segments, allowAboveRoot, out) ==
    IF segments = << >> THEN out
    ELSE LET seg == Head(segments)
             rest == Tail(segments)
         IN  IF seg = "" \/ seg = "."
               THEN normalizeSegments(rest, allowAboveRoot, out)
             ELSE IF seg = ".."
               THEN IF out # << >> /\ out[Len(out)] # ".."
                      THEN normalizeSegments(rest, allowAboveRoot,
                                             SubSeq(out, 1, Len(out) - 1))
                    ELSE IF allowAboveRoot
                      THEN normalizeSegments(rest, allowAboveRoot, Append(out, ".."))
                    ELSE normalizeSegments(rest, allowAboveRoot, out)
             ELSE normalizeSegments(rest, allowAboveRoot, Append(out, seg))

\* path.normalize: a trailing separator is kept.
normalize(p) ==
    LET isAbsolute == startsWith(p, "/")
        trailingSeparator == endsWith(p, "/")
        segments == normalizeSegments(split(p, "/"), ~isAbsolute, << >>)
        body == joinStrings(segments, "/")
    IN  IF p = "" THEN "."
        ELSE IF segments = << >>
          THEN (IF isAbsolute THEN "/" ELSE IF trailingSeparator THEN "./" ELSE ".")
        ELSE (IF isAbsolute THEN "/" ELSE "") \o body
             \o (IF trailingSeparator THEN "/" ELSE "")

\* path.join(a, b)
join(a, b) ==
    IF a = "" /\ b = "" THEN "."
    ELSE IF a = "" THEN normalize(b)
    ELSE IF b = "" THEN normalize(a)
    ELSE normalize(a \o "/" \o b)

\* The segments of path.resolve(p): absolute, normalized, no trailing
\* separator.
resolveSegments(p) ==
    normalizeSegments(split(IF startsWith(p, "/") THEN p ELSE cwd \o "/" \o p, "/"),
                      FALSE, << >>)

\* path.resolve(p)
resolve(p) == "/" \o joinStrings(resolveSegments(p), "/")

\* path.relative(from, to): from the resolved from up to the common ancestor,
\* then down to the resolved to.
relative(from, to) ==
    LET f == resolveSegments(from)
        t == resolveSegments(to)
        shared == {n \in 0..Len(f) : n <= Len(t) /\ SubSeq(f, 1, n) = SubSeq(t, 1, n)}
        common == CHOOSE n \in shared : \A m \in shared : m <= n
    IN  joinStrings([i \in 1..(Len(f) - common) |-> ".."]
                        \o SubSeq(t, common + 1, Len(t)), "/")

\* path.dirname: the path up to the separator before its last segment,
\* trailing separators not counted.
dirname(p) ==
    LET n == Len(p)
        hasRoot == startsWith(p, "/")
        nonSeparators == {i \in 1..n : charAt(p, i) # "/"}
        last == CHOOSE i \in nonSeparators : \A j \in nonSeparators : j <= i
        separators == IF nonSeparators = {} THEN {}
                      ELSE {i \in 2..n : charAt(p, i) = "/" /\ i < last}
        end == CHOOSE i \in separators : \A j \in separators : j <= i
    IN  IF p = "" THEN "."
        ELSE IF separators = {} THEN (IF hasRoot THEN "/" ELSE ".")
        ELSE IF hasRoot /\ end = 2 THEN "//"
        ELSE SubSeq(p, 1, end - 1)

\* path.basename: the last segment, trailing separators not counted.
basename(p) ==
    LET n == Len(p)
        nonSeparators == {i \in 1..n : charAt(p, i) # "/"}
        last == CHOOSE i \in nonSeparators : \A j \in nonSeparators : j <= i
        first == CHOOSE i \in 1..last :
                    /\ \A k \in i..last : charAt(p, k) # "/"
                    /\ (i = 1 \/ charAt(p, i - 1) = "/")
    IN  IF nonSeparators = {} THEN "" ELSE SubSeq(p, first, last)

\* The nodes of a file system.
Directory(names) == [kind |-> "dir", names |-> names, readable |-> TRUE]

LockedDirectory(names) == [kind |-> "dir", names |-> names, readable |-> FALSE]

File(lines) == [kind |-> "file", lines |-> lines, readable |-> TRUE]

LockedFile(lines) == [kind |-> "file", lines |-> lines, readable |-> FALSE]

\* A socket, a pipe or a symbolic link: neither isFile() nor isDirectory().
OtherEntry == [kind |-> "other", readable |-> TRUE]

\* The outcome of an awaited promise: a value, or a rejection.
Fulfilled(value) == [threw |-> FALSE, value |-> value]

Rejected == [threw |-> TRUE]

\* readdir(path, { withFileTypes: true }): the Dirents of the directory, or a
\* rejection when the path names no directory or one that may not be read.
readdir(fsys, path) ==
    LET p == resolve(path)
    IN  IF p \in DOMAIN fsys /\ fsys[p].kind = "dir" /\ fsys[p].readable
          THEN Fulfilled([i \in 1..Len(fsys[p].names) |->
                            [name |-> fsys[p].names[i],
                             kind |-> fsys[resolve(p \o "/" \o fsys[p].names[i])].kind]])
          ELSE Rejected

\* readFile(file, "utf-8") followed by content.split("\n"): the lines of the
\* file, or a rejection.
readFile(fsys, file) ==
    LET p == resolve(file)
    IN  IF p \in DOMAIN fsys /\ fsys[p].kind = "file" /\ fsys[p].readable
          THEN Fulfilled(fsys[p].lines)
          ELSE Rejected

(***************************************************************************)
(* module-validation/validate-module.tool.ts                               *)
(***************************************************************************)

REQUIRED_FILES ==
    << [pattern |-> ".service.", label |-> "Service (business logic)",
        rule |-> "standard-module-layout"],
       [pattern |-> ".types.", label |-> "Types (domain models)",
        rule |-> "standard-module-layout"],
       [pattern |-> "index.", label |-> "Public API (index.ts barrel)",
        rule |-> "define-public-api"] >>

RECOMMENDED_FILES ==
    << [pattern |-> ".repository.", label |-> "Repository (data access)",
        rule |-> "vertical-slice-per-module"],
       [pattern |-> ".validation.", label |-> "Validation (input schemas)",
        rule |-> "request-validation-at-edge"],
       [pattern |-> ".routes.", label |-> "Routes (API layer)",
        rule |-> "thin-routes"] >>

REQUIRED_WEIGHT == 70

RECOMMENDED_WEIGHT == 30

\* files.some((f) => f.includes(pattern))
someIncludes(files, pattern) ==
    \E i \in 1..Len(files) : includes(files[i], pattern)

\* The line of one item of a check list.
checkLine(item, files, missingIcon) ==
    "- [" \o (IF someIncludes(files, item.pattern) THEN "PASS" ELSE missingIcon)
          \o "] " \o item.label \o " ~ rule: |" \o item.rule \o "|"

\* The counter of a check list: the items found.
foundCount(items, files) ==
    Cardinality({i \in 1..Len(items) : someIncludes(files, items[i].pattern)})

\* The quotient num / den rounded down.
floorQuotient(num, den) == num \div den

\* Math.round of the quotient num / den (num >= 0, den > 0): the nearest
\* integer, a half rounded up.
roundQuotient(num, den) == (2 * num + den) \div (2 * den)

\* Math.round((requiredCount / totalRequired) * REQUIRED_WEIGHT
\*            + (recommendedCount / totalRecommended) * RECOMMENDED_WEIGHT).
\* The exact value is a multiple of 1/3 while the double the code computes is
\* within 1e-13 of it, so both round to the same integer.
complianceScore(requiredCount, recommendedCount) ==
    LET totalRequired == Len(REQUIRED_FILES)
        totalRecommended == Len(RECOMMENDED_FILES)
    IN  roundQuotient(requiredCount * REQUIRED_WEIGHT * totalRecommended
                        + recommendedCount * RECOMMENDED_WEIGHT * totalRequired,
                      totalRequired * totalRecommended)

\* The "Actions" section is pushed when a required item is missing.
needsActions(requiredCount) == requiredCount < Len(REQUIRED_FILES)

\* The report of validate-module on the names of a directory.
validationReport(path, files) ==
    LET requiredCount == foundCount(REQUIRED_FILES, files)
        recommendedCount == foundCount(RECOMMENDED_FILES, files)
    IN  << "# Module Validation: |" \o basename(path) \o "|",
           "",
           "**Path:** " \o path,
           "**Files found:** " \o ToString(Len(files)),
           "",
           "## Required Files" >>
        \o [i \in 1..Len(REQUIRED_FILES) |-> checkLine(REQUIRED_FILES[i], files, "FAIL")]
        \o << "", "## Recommended Files" >>
        \o [i \in 1..Len(RECOMMENDED_FILES) |->
               checkLine(RECOMMENDED_FILES[i], files, "MISSING")]
        \o << "",
              "## Summary",
              "- Required: " \o ToString(requiredCount) \o "/"
                  \o ToString(Len(REQUIRED_FILES)),
              "- Recommended: " \o ToString(recommendedCount) \o "/"
                  \o ToString(Len(RECOMMENDED_FILES)),
              "- Compliance score: **"
                  \o ToString(complianceScore(requiredCount, recommendedCount))
                  \o "%**" >>
        \o (IF needsActions(requiredCount)
              THEN << "",
                      "## Actions",
                      "Missing required files indicate the module may not follow the standard layout.",
                      "Use |get-template| to generate the missing files." >>
              ELSE << >>)

\* The answer to a directory that could not be read.
couldNotRead(path, advice) ==
    textContent(<<"Could not read directory: " \o path, advice>>)

\* The handler without its catch: the rejection of readdir is the outcome.
validateModuleUncaught(path, listing) ==
    IF listing.threw
      THEN Rejected
      ELSE textContent(validationReport(path,
               [i \in 1..Len(listing.value) |-> listing.value[i].name]))

\* The validate-module handler on the outcome of its readdir.
validateModuleOn(path, listing) ==
    IF listing.threw
      THEN couldNotRead(path, "Make sure the path exists and is accessible.")
      ELSE textContent(validationReport(path,
               [i \in 1..Len(listing.value) |-> listing.value[i].name]))

\* The validate-module handler.
validateModule(path) == validateModuleOn(path, readdir(fs, path))

(***************************************************************************)
(* module-validation/check-imports.tool.ts                                 *)
(***************************************************************************)

\* walkDir descends into every directory but these two.
isWalkedDirectory(name) == name # "node_modules" /\ name # "build"

\* walkDir collects the TypeScript files that are no declaration files.
isScannedFile(name) ==
    (endsWith(name, ".ts") \/ endsWith(name, ".tsx")) /\ ~endsWith(name, ".d.ts")

\* walkDir(dir): the files below dir in the order of the listings, or a
\* rejection when dir or a directory below it cannot be listed.  walkEntries
\* is its loop over the Dirents of one listing.
RECURSIVE walkDir(_, _)
RECURSIVE walkEntries(_, _, _, _)
walkEntries(fsys, dir, entries, files) ==
    IF entries = << >> THEN Fulfilled(files)
    ELSE LET entry == Head(entries)
             fullPath == join(dir, entry.name)
         IN  IF entry.kind = "dir" /\ isWalkedDirectory(entry.name)
               THEN LET below == walkDir(fsys, fullPath)
                    IN  IF below.threw THEN Rejected
                        ELSE walkEntries(fsys, dir, Tail(entries), files \o below.value)
             ELSE IF entry.kind = "file" /\ isScannedFile(entry.name)
               THEN walkEntries(fsys, dir, Tail(entries), Append(files, fullPath))
             ELSE walkEntries(fsys, dir, Tail(entries), files)

walkDir(fsys, dir) ==
    LET listing == readdir(fsys, dir)
    IN  IF listing.threw THEN Rejected
        ELSE walkEntries(fsys, dir, listing.value, << >>)

\* The value null where a module name is expected; a name is held as the
\* sequence of itself.
null == << >>

\* extractModuleName: the first segment of the path of the file relative to
\* the modules directory, when the file lies below a directory of it.
extractModuleName(filePath, modulesDir) ==
    LET rel == relative(modulesDir, filePath)
        parts == split(rel, "/")
    IN  IF startsWith(rel, "..") THEN null
        ELSE IF Len(parts) >= 2 THEN <<parts[1]>>
        ELSE null

\* The import path goes on after its last segment equal to the target module
\* with more than an index file.
isInternalImportFromLast(importPath, targetModule) ==
    LET parts == split(importPath, "/")
        found == {i \in 1..Len(parts) : parts[i] = targetModule}
        moduleIdx == CHOOSE i \in found : \A j \in found : i >= j
        afterModule == SubSeq(parts, moduleIdx + 1, Len(parts))
    IN  /\ found # {}
        /\ afterModule \notin {<< >>, <<"index.js">>, <<"index.ts">>, <<"index">>, <<"">>}

\* isInternalImport: the import path goes on after its first segment equal to
\* the target module with more than an index file.
isInternalImport(importPath, targetModule) ==
    LET parts == split(importPath, "/")
        found == {i \in 1..Len(parts) : parts[i] = targetModule}
        moduleIdx == CHOOSE i \in found : \A j \in found : i <= j
        afterModule == SubSeq(parts, moduleIdx + 1, Len(parts))
    IN  IF found = {} THEN FALSE
        ELSE IF Len(afterModule) = 0 THEN FALSE
        ELSE IF Len(afterModule) = 1 /\ afterModule[1] = "index.js" THEN FALSE
        ELSE IF Len(afterModule) = 1 /\ afterModule[1] = "index.ts" THEN FALSE
        ELSE IF Len(afterModule) = 1 /\ afterModule[1] = "index" THEN FALSE
        ELSE IF Len(afterModule) = 1 /\ afterModule[1] = "" THEN FALSE
        ELSE TRUE

\* The characters ['"] of importRegex.
Quotes == {"'", "\""}

\* The first position from on whose character is in S, or Len(s) + 1.
firstIn(s, from, S) ==
    LET hits == {i \in from..Len(s) : charAt(s, i) \in S}
    IN  IF hits = {} THEN Len(s) + 1
        ELSE CHOOSE i \in hits : \A j \in hits : i <= j

\* The first position from on whose character is not in S, or Len(s) + 1.
firstNotIn(s, from, S) ==
    LET hits == {i \in from..Len(s) : charAt(s, i) \notin S}
    IN  IF hits = {} THEN Len(s) + 1
        ELSE CHOOSE i \in hits : \A j \in hits : i <= j

\* A match of /(?:import|from)\s+['"]([^'"]+)['"]/ that starts at position p:
\* the keyword, white space, a quote, a run of characters that are no quotes,
\* a quote.  next is the position after the match.
importMatchAt(line, p) ==
    LET n == Len(line)
        afterKeyword ==
            IF p + 5 <= n /\ SubSeq(line, p, p + 5) = "import" THEN p + 6
            ELSE IF p + 3 <= n /\ SubSeq(line, p, p + 3) = "from" THEN p + 4
            ELSE 0
        open == firstNotIn(line, afterKeyword, WhiteSpace)
        close == firstIn(line, open + 1, Quotes)
    IN  IF /\ afterKeyword > 0
           /\ open > afterKeyword
           /\ open <= n
           /\ charAt(line, open) \in Quotes
           /\ close <= n
           /\ close > open + 1
          THEN [found |-> TRUE, path |-> SubSeq(line, open + 1, close - 1),
                next |-> close + 1]
          ELSE [found |-> FALSE]

\* The loop while ((match = importRegex.exec(line)) !== null): the captured
\* paths of the successive matches from lastIndex on.
RECURSIVE importPathsFrom(_, _)
importPathsFrom(line, lastIndex) ==
    LET starts == {p \in lastIndex..Len(line) : importMatchAt(line, p).found}
        first == CHOOSE p \in starts : \A q \in starts : p <= q
    IN  IF starts = {} THEN << >>
        ELSE <<importMatchAt(line, first).path>>
             \o importPathsFrom(line, importMatchAt(line, first).next)

\* The body of the loop over the matches: the import is pushed as a violation
\* when it starts with a dot, resolves into another module and is internal
\* to it.
isViolation(file, importPath, sourceModule, path) ==
    LET importModule == extractModuleName(join(dirname(file), importPath), path)
    IN  /\ startsWith(importPath, ".")
        /\ importModule # null
        /\ importModule # sourceModule
        /\ isInternalImport(importPath, importModule[1])

violationOf(file, lineNumber, importPath, sourceModule, path) ==
    [file |-> relative(path, file),
     line |-> lineNumber,
     importPath |-> importPath,
     sourceModule |-> sourceModule[1],
     targetModule |-> extractModuleName(join(dirname(file), importPath), path)[1],
     reason |-> "Direct import of internal file bypasses module boundary"]

\* The loop over the lines of one file.
violationsOfLines(file, lines, sourceModule, path) ==
    flatten([i \in 1..Len(lines) |->
        LET Violates(importPath) == isViolation(file, importPath, sourceModule, path)
            found == SelectSeq(importPathsFrom(lines[i], 1), Violates)
        IN  [k \in 1..Len(found) |-> violationOf(file, i, found[k], sourceModule, path)]])

\* The body of the loop over allFiles, on the outcome of readFile: a file
\* outside every module and a file that cannot be read are passed over.
violationsOfFile(file, content, path) ==
    LET sourceModule == extractModuleName(file, path)
    IN  IF sourceModule = null THEN << >>
        ELSE IF content.threw THEN << >>
        ELSE violationsOfLines(file, content.value, sourceModule, path)

\* The key a violation is grouped under.
pairOf(v) == v.sourceModule \o " ^ " \o v.targetModule

\* The loop that fills the Map grouped: the sequence of its entries
\* [key, list] in insertion order.
RECURSIVE groupViolationsFrom(_, _)
groupViolationsFrom(violations, grouped) ==
    IF violations = << >> THEN grouped
    ELSE LET v == Head(violations)
             known == \E k \in 1..Len(grouped) : grouped[k].key = pairOf(v)
             next == IF known
                       THEN [k \in 1..Len(grouped) |->
                               IF grouped[k].key = pairOf(v)
                                 THEN [grouped[k] EXCEPT !.list = Append(@, v)]
                                 ELSE grouped[k]]
                       ELSE Append(grouped, [key |-> pairOf(v), list |-> <<v>>])
         IN  groupViolationsFrom(Tail(violations), next)

\* The report of check-imports.
importReport(path, allFiles, violations) ==
    LET grouped == groupViolationsFrom(violations, << >>)
    IN  << "# Import Boundary Check",
           "",
           "**Scanned:** " \o ToString(Len(allFiles)) \o " files in " \o path,
           "" >>
        \o (IF Len(violations) = 0
              THEN << "## Result: No violations found",
                      "",
                      "All cross-module imports go through the public API (index.ts)." >>
              ELSE << "## Result: " \o ToString(Len(violations)) \o " violation(s) found",
                      "",
                      "The following imports bypass module boundaries by importing internal files directly:",
                      "" >>
                   \o flatten([g \in 1..Len(grouped) |->
                         <<"### " \o grouped[g].key>>
                         \o [i \in 1..Len(grouped[g].list) |->
                               "- |" \o grouped[g].list[i].file \o ":"
                                     \o ToString(grouped[g].list[i].line)
                                     \o "| imports |"
                                     \o grouped[g].list[i].importPath \o "|"]
                         \o <<"">>])
                   \o << "## How to fix",
                         "",
                         "1. Each module should expose its public API via |index.ts|",
                         "2. Change imports to use the module's |index.ts| barrel export",
                         "3. If the needed export doesn't exist, add it to the target module's |index.ts|",
                         "",
                         "**Related rules:** |no-direct-module-imports|, |define-public-api|, |hide-implementation-details|" >>)

\* The violations of all files, in the order of allFiles.
scanFiles(fsys, allFiles, path) ==
    flatten([i \in 1..Len(allFiles) |->
                violationsOfFile(allFiles[i], readFile(fsys, allFiles[i]), path)])

\* The check-imports handler.
checkImports(path) ==
    LET walked == walkDir(fs, path)
    IN  IF walked.threw
          THEN couldNotRead(path, "Make sure the path exists and contains module directories.")
          ELSE textContent(importReport(path, walked.value,
                                        scanFiles(fs, walked.value, path)))

(***************************************************************************)
(* code-templates: utils.ts, the generators and get-template.tool.ts.  A   *)
(* generated text is the sequence of its lines.                            *)
(***************************************************************************)

\* Character.toUpperCase for the ASCII letters.
upperChar(c) ==
    IF c \in CharsOf(LowerLetters)
      THEN LET i == CHOOSE k \in 1..Len(LowerLetters) : charAt(LowerLetters, k) = c
           IN  charAt(UpperLetters, i)
      ELSE c

\* (w) => w.charAt(0).toUpperCase() + w.slice(1)
capitalizeWord(w) ==
    IF w = "" THEN "" ELSE upperChar(charAt(w, 1)) \o SubSeq(w, 2, Len(w))

toPascalCase(kebab) ==
    LET parts == split(kebab, "-")
    IN  concatAll([i \in 1..Len(parts) |-> capitalizeWord(parts[i])])

toCamelCase(kebab) ==
    LET parts == split(kebab, "-")
    IN  parts[1]
          \o concatAll([i \in 1..(Len(parts) - 1) |-> capitalizeWord(parts[i + 1])])

\* moduleName.replace(/-/g, "")
removeHyphens(s) == concatAll(split(s, "-"))

generateModuleScaffold(moduleName) ==
    LET pascal == toPascalCase(moduleName)
    IN  << "# Module Scaffold: " \o moduleName,
           "",
           "## Directory Structure",
           "|||",
           "modules/" \o moduleName \o "/",
           "  " \o moduleName \o ".service.ts      ~ Business logic (rule: vertical-slice-per-module)",
           "  " \o moduleName \o ".repository.ts   ~ Data access layer (rule: separate-module-data)",
           "  " \o moduleName \o ".types.ts        ~ Domain types & interfaces (rule: dto-at-boundaries)",
           "  " \o moduleName \o ".validation.ts   ~ Zod input schemas (rule: request-validation-at-edge)",
           "  " \o moduleName \o ".routes.ts       ~ API route handlers (rule: thin-routes)",
           "  index.ts                      ~ Public API barrel (rule: define-public-api)",
           "|||",
           "",
           "## File: index.ts (Public API)",
           "|||typescript",
           "// Rule: define-public-api ~ Only export what consumers need",
           "// Rule: hide-implementation-details ~ Internals stay private",
           "export { " \o removeHyphens(moduleName) \o "Service } from \"./" \o moduleName \o ".service.js\";",
           "export type {",
           "  " \o pascal \o ",",
           "  Create" \o pascal \o "Input,",
           "  Update" \o pascal \o "Input,",
           "} from \"./" \o moduleName \o ".types.js\";",
           "|||",
           "",
           "## File: " \o moduleName \o ".types.ts",
           "|||typescript",
           "// Rule: dto-at-boundaries ~ Public types are DTOs, not internal models",
           "export interface " \o pascal \o " {",
           "  id: string;",
           "  createdAt: string;",
           "  updatedAt: string;",
           "}",
           "",
           "export interface Create" \o pascal \o "Input {",
           "  // Define required fields for creation",
           "}",
           "",
           "export interface Update" \o pascal \o "Input {",
           "  // Define optional fields for updates",
           "}",
           "|||",
           "",
           "## File: " \o moduleName \o ".service.ts",
           "|||typescript",
           "// Rule: vertical-slice-per-module ~ Service contains business logic",
           "// Rule: self-contained-initialization ~ Dependencies injected via constructor",
           "import type { " \o pascal \o ", Create" \o pascal \o "Input } from \"./" \o moduleName \o ".types.js\";",
           "import type { " \o pascal \o "Repository } from \"./" \o moduleName \o ".repository.js\";",
           "",
           "export class " \o pascal \o "Service {",
           "  constructor(private repository: " \o pascal \o "Repository) {}",
           "",
           "  async getById(id: string): Promise<" \o pascal \o " | null> {",
           "    return this.repository.findById(id);",
           "  }",
           "",
           "  async create(input: Create" \o pascal \o "Input): Promise<" \o pascal \o "> {",
           "    return this.repository.create(input);",
           "  }",
           "}",
           "|||",
           "",
           "## File: " \o moduleName \o ".repository.ts",
           "|||typescript",
           "// Rule: separate-module-data ~ Only this module accesses its data",
           "// Rule: depend-on-abstractions ~ Export interface, not just implementation",
           "import type { " \o pascal \o ", Create" \o pascal \o "Input } from \"./" \o moduleName \o ".types.js\";",
           "",
           "export interface " \o pascal \o "Repository {",
           "  findById(id: string): Promise<" \o pascal \o " | null>;",
           "  create(input: Create" \o pascal \o "Input): Promise<" \o pascal \o ">;",
           "}",
           "|||",
           "",
           "## File: " \o moduleName \o ".validation.ts",
           "|||typescript",
           "// Rule: request-validation-at-edge ~ Validate at the API boundary",
           "import { z } from \"zod\";",
           "",
           "export const create" \o pascal \o "Schema = z.object({",
           "  // Define validation rules matching Create" \o pascal \o "Input",
           "});",
           "",
           "export const update" \o pascal \o "Schema = z.object({",
           "  // Define validation rules matching Update" \o pascal \o "Input",
           "});",
           "|||",
           "",
           "## File: " \o moduleName \o ".routes.ts",
           "|||typescript",
           "// Rule: thin-routes ~ Validate, call service, respond",
           "// Rule: one-route-one-module ~ Routes belong to this module only",
           "import { " \o removeHyphens(moduleName) \o "Service } from \"./index.js\";",
           "import { create" \o pascal \o "Schema } from \"./" \o moduleName \o ".validation.js\";",
           "",
           "// Register routes with your framework (Express, Fastify, Hono, etc.)",
           "// app.get(\"/" \o moduleName \o "/:id\", async (req, res) => {",
           "//   const item = await service.getById(req.params.id);",
           "//   res.json(item);",
           "// });",
           "|||",
           "",
           "## Architecture Compliance",
           "- [x] Domain-centric organization (rule: domain-centric-modules)",
           "- [x] Public API via index.ts (rule: define-public-api)",
           "- [x] Data isolation (rule: separate-module-data)",
           "- [x] Thin routes (rule: thin-routes)",
           "- [x] Self-contained initialization (rule: self-contained-initialization)",
           "" >>

generateService(moduleName) ==
    LET pascal == toPascalCase(moduleName)
    IN  << "// " \o moduleName \o ".service.ts",
           "// Rule: vertical-slice-per-module ~ Service contains all business logic for this module",
           "// Rule: self-contained-initialization ~ Dependencies injected via constructor",
           "// Rule: depend-on-abstractions ~ Depends on repository interface, not implementation",
           "",
           "import type { " \o pascal \o ", Create" \o pascal \o "Input, Update" \o pascal \o "Input } from \"./" \o moduleName \o ".types.js\";",
           "import type { " \o pascal \o "Repository } from \"./" \o moduleName \o ".repository.js\";",
           "",
           "export class " \o pascal \o "Service {",
           "  constructor(private readonly repository: " \o pascal \o "Repository) {}",
           "",
           "  async getById(id: string): Promise<" \o pascal \o " | null> {",
           "    return this.repository.findById(id);",
           "  }",
           "",
           "  async getAll(): Promise<" \o pascal \o "[]> {",
           "    return this.repository.findAll();",
           "  }",
           "",
           "  async create(input: Create" \o pascal \o "Input): Promise<" \o pascal \o "> {",
           "    // Add business rules and validations here",
           "    return this.repository.create(input);",
           "  }",
           "",
           "  async update(id: string, input: Update" \o pascal \o "Input): Promise<" \o pascal \o "> {",
           "    const existing = await this.repository.findById(id);",
           "    if (!existing) {",
           "      throw new Error(|" \o pascal \o " not found: ${id}|);",
           "    }",
           "    // Add business rules for updates here",
           "    return this.repository.update(id, input);",
           "  }",
           "",
           "  async delete(id: string): Promise<void> {",
           "    const existing = await this.repository.findById(id);",
           "    if (!existing) {",
           "      throw new Error(|" \o pascal \o " not found: ${id}|);",
           "    }",
           "    return this.repository.delete(id);",
           "  }",
           "}",
           "" >>

generateRepository(moduleName) ==
    LET pascal == toPascalCase(moduleName)
    IN  << "// " \o moduleName \o ".repository.ts",
           "// Rule: separate-module-data ~ Only this module accesses its own data",
           "// Rule: depend-on-abstractions ~ Export interface for DI and testing",
           "// Rule: data-ownership-principle ~ This module owns the lifecycle of its data",
           "",
           "import type { " \o pascal \o ", Create" \o pascal \o "Input, Update" \o pascal \o "Input } from \"./" \o moduleName \o ".types.js\";",
           "",
           "// Interface ~ used by service via dependency injection",
           "export interface " \o pascal \o "Repository {",
           "  findById(id: string): Promise<" \o pascal \o " | null>;",
           "  findAll(): Promise<" \o pascal \o "[]>;",
           "  create(input: Create" \o pascal \o "Input): Promise<" \o pascal \o ">;",
           "  update(id: string, input: Update" \o pascal \o "Input): Promise<" \o pascal \o ">;",
           "  delete(id: string): Promise<void>;",
           "}",
           "",
           "// Implementation ~ Prisma example (swap for any data source)",
           "// Rule: hide-implementation-details ~ Implementation is internal to this module",
           "export class Prisma" \o pascal \o "Repository implements " \o pascal \o "Repository {",
           "  constructor(private readonly prisma: any) {}",
           "",
           "  async findById(id: string): Promise<" \o pascal \o " | null> {",
           "    return this.prisma." \o removeHyphens(moduleName) \o ".findUnique({ where: { id } });",
           "  }",
           "",
           "  async findAll(): Promise<" \o pascal \o "[]> {",
           "    return this.prisma." \o removeHyphens(moduleName) \o ".findMany();",
           "  }",
           "",
           "  async create(input: Create" \o pascal \o "Input): Promise<" \o pascal \o "> {",
           "    return this.prisma." \o removeHyphens(moduleName) \o ".create({ data: input });",
           "  }",
           "",
           "  async update(id: string, input: Update" \o pascal \o "Input): Promise<" \o pascal \o "> {",
           "    return this.prisma." \o removeHyphens(moduleName) \o ".update({ where: { id }, data: input });",
           "  }",
           "",
           "  async delete(id: string): Promise<void> {",
           "    await this.prisma." \o removeHyphens(moduleName) \o ".delete({ where: { id } });",
           "  }",
           "}",
           "" >>

generateTypes(moduleName) ==
    LET pascal == toPascalCase(moduleName)
    IN  << "// " \o moduleName \o ".types.ts",
           "// Rule: dto-at-boundaries ~ These types are the module's public contract",
           "// Rule: stable-contracts ~ Changes here affect consumers; use additive changes",
           "",
           "// Main entity DTO ~ returned by the module's public API",
           "export interface " \o pascal \o " {",
           "  id: string;",
           "  // Add domain-specific fields here",
           "  createdAt: string;",
           "  updatedAt: string;",
           "}",
           "",
           "// Input for creating a new entity",
           "export interface Create" \o pascal \o "Input {",
           "  // Add required fields for creation",
           "  // Rule: Do NOT include id, createdAt, updatedAt ~ those are generated",
           "}",
           "",
           "// Input for updating an existing entity",
           "export interface Update" \o pascal \o "Input {",
           "  // All fields optional ~ partial updates",
           "  // Rule: stable-contracts ~ New optional fields are backwards-compatible",
           "}",
           "",
           "// Lightweight reference type ~ for cross-module communication",
           "// Rule: anti-corruption-layer ~ Other modules use this, not the full entity",
           "export interface " \o pascal \o "Reference {",
           "  id: string;",
           "  // Include only the minimal fields other modules need",
           "}",
           "" >>

generateValidation(moduleName) ==
    LET pascal == toPascalCase(moduleName)
    IN  << "// " \o moduleName \o ".validation.ts",
           "// Rule: request-validation-at-edge ~ Validate input at the API boundary",
           "// Rule: one-route-one-module ~ Validation schemas belong to the module",
           "",
           "import { z } from \"zod\";",
           "",
           "// Schema for creating a new " \o pascal,
           "export const create" \o pascal \o "Schema = z.object({",
           "  // Define validation rules matching Create" \o pascal \o "Input",
           "  // Example:",
           "  // name: z.string().min(1).max(255),",
           "  // email: z.string().email(),",
           "});",
           "",
           "// Schema for updating an existing " \o pascal,
           "export const update" \o pascal \o "Schema = z.object({",
           "  // All fields optional for partial updates",
           "  // Example:",
           "  // name: z.string().min(1).max(255).optional(),",
           "  // email: z.string().email().optional(),",
           "});",
           "",
           "// Schema for query parameters / filters",
           "export const query" \o pascal \o "Schema = z.object({",
           "  page: z.coerce.number().int().positive().default(1),",
           "  pageSize: z.coerce.number().int().positive().max(100).default(20),",
           "  // Add module-specific filters",
           "});",
           "",
           "// Infer types from schemas ~ keeps validation and types in sync",
           "export type Create" \o pascal \o "Validated = z.infer<typeof create" \o pascal \o "Schema>;",
           "export type Update" \o pascal \o "Validated = z.infer<typeof update" \o pascal \o "Schema>;",
           "export type Query" \o pascal \o "Params = z.infer<typeof query" \o pascal \o "Schema>;",
           "" >>

generatePublicApi(moduleName) ==
    LET pascal == toPascalCase(moduleName)
        camel == toCamelCase(moduleName)
    IN  << "// index.ts ~ Public API for the " \o moduleName \o " module",
           "// Rule: define-public-api ~ This file IS the module's contract",
           "// Rule: hide-implementation-details ~ Only re-export what consumers need",
           "// Rule: self-contained-initialization ~ Compose and export ready-to-use instances",
           "",
           "import { " \o pascal \o "Service } from \"./" \o moduleName \o ".service.js\";",
           "import { Prisma" \o pascal \o "Repository } from \"./" \o moduleName \o ".repository.js\";",
           "// Import your database client from shared kernel",
           "// import { prisma } from \"../../shared/prisma.js\";",
           "",
           "// --- Module Composition (internal wiring) ---",
           "// Rule: self-contained-initialization",
           "// const repository = new Prisma" \o pascal \o "Repository(prisma);",
           "// export const " \o camel \o "Service = new " \o pascal \o "Service(repository);",
           "",
           "// --- Public Types (the contract) ---",
           "// Rule: dto-at-boundaries ~ Export only DTOs, never internal models",
           "export type {",
           "  " \o pascal \o ",",
           "  Create" \o pascal \o "Input,",
           "  Update" \o pascal \o "Input,",
           "} from \"./" \o moduleName \o ".types.js\";",
           "",
           "// --- Public Service (the behavior) ---",
           "export { " \o pascal \o "Service } from \"./" \o moduleName \o ".service.js\";",
           "",
           "// --- NOT exported (implementation details) ---",
           "// - " \o pascal \o "Repository (internal data access)",
           "// - Prisma" \o pascal \o "Repository (concrete implementation)",
           "// - Validation schemas (used by routes within this module)",
           "// - Internal helpers, mappers, constants",
           "" >>

generateRouteHandler(moduleName) ==
    LET pascal == toPascalCase(moduleName)
        camel == toCamelCase(moduleName)
        urlPath == moduleName
    IN  << "// " \o moduleName \o ".routes.ts",
           "// Rule: thin-routes ~ Validate input, call service, return response",
           "// Rule: one-route-one-module ~ These routes belong exclusively to the " \o moduleName \o " module",
           "// Rule: request-validation-at-edge ~ Zod validation happens here, not in service",
           "",
           "import { " \o camel \o "Service } from \"./index.js\";",
           "import {",
           "  create" \o pascal \o "Schema,",
           "  update" \o pascal \o "Schema,",
           "  query" \o pascal \o "Schema,",
           "} from \"./" \o moduleName \o ".validation.js\";",
           "",
           "// Example using Express-style API. Adapt to your framework (Fastify, Hono, etc.)",
           "",
           "// GET /" \o urlPath,
           "// List with pagination",
           "export async function list" \o pascal \o "(req: any, res: any) {",
           "  const query = query" \o pascal \o "Schema.parse(req.query);",
           "  const items = await " \o camel \o "Service.getAll();",
           "  res.json(items);",
           "}",
           "",
           "// GET /" \o urlPath \o "/:id",
           "// Get by ID",
           "export async function get" \o pascal \o "(req: any, res: any) {",
           "  const item = await " \o camel \o "Service.getById(req.params.id);",
           "  if (!item) {",
           "    return res.status(404).json({ error: \"" \o pascal \o " not found\" });",
           "  }",
           "  res.json(item);",
           "}",
           "",
           "// POST /" \o urlPath,
           "// Create new",
           "export async function create" \o pascal \o "(req: any, res: any) {",
           "  const input = create" \o pascal \o "Schema.parse(req.body);",
           "  const item = await " \o camel \o "Service.create(input);",
           "  res.status(201).json(item);",
           "}",
           "",
           "// PATCH /" \o urlPath \o "/:id",
           "// Update existing",
           "export async function update" \o pascal \o "(req: any, res: any) {",
           "  const input = update" \o pascal \o "Schema.parse(req.body);",
           "  const item = await " \o camel \o "Service.update(req.params.id, input);",
           "  res.json(item);",
           "}",
           "",
           "// DELETE /" \o urlPath \o "/:id",
           "// Delete",
           "export async function delete" \o pascal \o "(req: any, res: any) {",
           "  await " \o camel \o "Service.delete(req.params.id);",
           "  res.status(204).end();",
           "}",
           "",
           "// Route registration helper",
           "// export function register" \o pascal \o "Routes(app: any) {",
           "//   app.get(\"/" \o urlPath \o "\", list" \o pascal \o ");",
           "//   app.get(\"/" \o urlPath \o "/:id\", get" \o pascal \o ");",
           "//   app.post(\"/" \o urlPath \o "\", create" \o pascal \o ");",
           "//   app.patch(\"/" \o urlPath \o "/:id\", update" \o pascal \o ");",
           "//   app.delete(\"/" \o urlPath \o "/:id\", delete" \o pascal \o ");",
           "// }",
           "" >>

generateIntegrationClient(moduleName) ==
    LET pascal == toPascalCase(moduleName)
    IN  << "// " \o moduleName \o "-client.ts",
           "// Rule: dedicated-client-wrapper ~ Dedicated wrapper for the " \o moduleName \o " external API",
           "// Rule: isolated-integration-module ~ External API details stay within this module",
           "// Rule: integration-change-isolation ~ Switching providers only affects this file",
           "",
           "// --- Internal types (what YOUR code uses) ---",
           "export interface " \o pascal \o "Request {",
           "  // Define your internal request shape",
           "}",
           "",
           "export interface " \o pascal \o "Response {",
           "  // Define your internal response shape",
           "  // This is YOUR model, not the external API's model",
           "}",
           "",
           "// --- Client wrapper ---",
           "export class " \o pascal \o "Client {",
           "  private readonly baseUrl: string;",
           "  private readonly apiKey: string;",
           "",
           "  constructor(config: { baseUrl: string; apiKey: string }) {",
           "    this.baseUrl = config.baseUrl;",
           "    this.apiKey = config.apiKey;",
           "  }",
           "",
           "  async execute(request: " \o pascal \o "Request): Promise<" \o pascal \o "Response> {",
           "    // Rule: anti-corruption-layer ~ Translate internal model to external format",
           "    const externalPayload = this.toExternalFormat(request);",
           "",
           "    const response = await fetch(|${this.baseUrl}/endpoint|, {",
           "      method: \"POST\",",
           "      headers: {",
           "        \"Content-Type\": \"application/json\",",
           "        Authorization: |Bearer ${this.apiKey}|,",
           "      },",
           "      body: JSON.stringify(externalPayload),",
           "    });",
           "",
           "    if (!response.ok) {",
           "      throw new " \o pascal \o "Error(",
           "        |" \o pascal \o " API error: ${response.status} ${response.statusText}|,",
           "      );",
           "    }",
           "",
           "    const externalResponse = await response.json();",
           "    // Rule: anti-corruption-layer ~ Translate external response to internal model",
           "    return this.toInternalFormat(externalResponse);",
           "  }",
           "",
           "  // --- Translation layer (Anti-Corruption Layer) ---",
           "  private toExternalFormat(request: " \o pascal \o "Request): unknown {",
           "    // Map internal fields to external API format",
           "    return {",
           "      // external_field: request.internalField,",
           "    };",
           "  }",
           "",
           "  private toInternalFormat(external: any): " \o pascal \o "Response {",
           "    // Map external API response to internal format",
           "    return {",
           "      // internalField: external.external_field,",
           "    };",
           "  }",
           "}",
           "",
           "// --- Error class ---",
           "export class " \o pascal \o "Error extends Error {",
           "  constructor(message: string, options?: ErrorOptions) {",
           "    super(message, options);",
           "    this.name = \"" \o pascal \o "Error\";",
           "  }",
           "}",
           "" >>
TEMPLATE_NAMES ==
    << "module-scaffold", "service", "repository", "types", "validation",
       "public-api", "route-handler", "integration-client" >>

\* TEMPLATE_GENERATORS[template](moduleName)
generateTemplate(template, moduleName) ==
    CASE template = "module-scaffold" -> generateModuleScaffold(moduleName)
      [] template = "service" -> generateService(moduleName)
      [] template = "repository" -> generateRepository(moduleName)
      [] template = "types" -> generateTypes(moduleName)
      [] template = "validation" -> generateValidation(moduleName)
      [] template = "public-api" -> generatePublicApi(moduleName)
      [] template = "route-handler" -> generateRouteHandler(moduleName)
      [] template = "integration-client" -> generateIntegrationClient(moduleName)

\* Every character of s is one of [a-z0-9].
isLowerAlphanumeric(s) ==
    \A i \in 1..Len(s) : charAt(s, i) \in CharsOf(LowerLetters) \cup CharsOf(Digits)

\* A name that may also end in a hyphen and start with a digit.
testModuleNameLoose(moduleName) ==
    /\ moduleName # ""
    /\ isLowerAlphanumeric(removeHyphens(moduleName))

\* MODULE_NAME_REGEX.test(moduleName) for /^[a-z][a-z0-9]*(-[a-z0-9]+)*$/: a
\* first piece that starts with a letter, then pieces of one character or
\* more, each after one hyphen.
testModuleName(moduleName) ==
    LET parts == split(moduleName, "-")
    IN  /\ parts[1] # ""
        /\ charAt(parts[1], 1) \in CharsOf(LowerLetters)
        /\ \A i \in 1..Len(parts) : parts[i] # "" /\ isLowerAlphanumeric(parts[i])

\* The get-template handler.
getTemplate(args) ==
    IF ~testModuleName(args.moduleName)
      THEN textContent(<<"Invalid module name \"" \o args.moduleName
               \o "\". Module names must be kebab-case: start with a lowercase letter, contain only lowercase letters, digits, and hyphens (e.g. 'orders', 'user-management').">>)
      ELSE textContent(generateTemplate(args.template, args.moduleName))

(***************************************************************************)
(* Bounds of the model and the inputs drawn within them.                   *)
(***************************************************************************)

\* Longest generated search query.
MaxQueryLen == 2

\* Most tags of a generated entry.
MaxTags == 2

\* Most tokens of a generated token sequence.
MaxTokens == 2

\* Largest count in a generated boost map.
MaxBoost == 2

\* Longest generated input list of rankRules.
MaxRankLen == 3

\* Largest score a generated scoring function gives.
MaxScore == 2

\* Longest ranked rule list handed to formatSearchResults.
MaxRankedRules == 11

\* Longest ranked anti-pattern list handed to formatSearchResults.
MaxRankedAntiPatterns == 3

\* Largest maxTotal option handed to formatSearchResults.
MaxMaxTotal == 12

\* A generated entry: the fields the scorer, ranker and formatter read.
Entry(id, name, category, description, tags) ==
    [id |-> id, name |-> name, category |-> category,
     description |-> description, rationale |-> "because",
     examples |-> << >>, tags |-> tags, cleanCodeRefs |-> << >>]

\* Generated queries: upper and lower case, white space, one and two letters.
GenQueries == StringsUpTo({"a", "b", "A", " "}, MaxQueryLen)

GenTagSeqs == SeqsUpTo({"a", "ab"}, MaxTags)

GenCategories == {"module-structure", "module-boundaries", "migration"}

\* Generated entries for scoreRuleByQuery.
GenEntries ==
    {Entry(id, name, category, description, tags) :
        id \in {"a", "ab", "ba"},
        name \in {"Ab", "B a"},
        category \in GenCategories,
        description \in {"", "A b", "ba"},
        tags \in GenTagSeqs}

\* Generated entries, token sequences and boost maps for scoreRuleByTokens.
GenTokenEntries ==
    {Entry(id, name, category, description, tags) :
        id \in {"a", "ab"},
        name \in {"Ab", "b"},
        category \in GenCategories,
        description \in {"", "A b"},
        tags \in GenTagSeqs}

GenTokenSeqs == SeqsUpTo({"a", "ab"}, MaxTokens)

GenBoostMaps ==
    {EmptyMap} \cup
    {[k \in {c} |-> n] : c \in {"migration", "shared-kernel"}, n \in 1..MaxBoost}

\* The entries the search handlers score: the rules, and the anti-patterns as
\* antiPatternsAsRules hands them on.
CatalogEntries == RangeOf(RulesData) \cup RangeOf(antiPatternsAsRules(AntiPatternsData))

\* s with its first letter in upper case.
Capitalized(s) ==
    IF s # "" /\ charAt(s, 1) \in CharsOf(LowerLetters)
      THEN LET i == CHOOSE k \in 1..Len(LowerLetters) : charAt(LowerLetters, k) = charAt(s, 1)
           IN  charAt(UpperLetters, i) \o SubSeq(s, 2, Len(s))
      ELSE s

\* Queries put to a catalog entry: its id, plain and with other case and
\* white space around it, its category, its first tag and a stop word.
CatalogQueries(rule) ==
    {rule.id, " " \o Capitalized(rule.id) \o "  ", rule.category, "the"}
    \cup (IF rule.tags = << >> THEN {} ELSE {rule.tags[1]})

\* Token sequences put to a catalog entry.
CatalogTokenSeqs ==
    {<< >>, <<"boundary", "coupling">>, <<"module", "module">>}

\* Generated inputs of rankRules: lists, repetitions included, over three
\* entries, and every scoring function on them with values -1..MaxScore.
RankEntries ==
    {Entry(id, "N", "migration", "", << >>) : id \in {"r1", "r2", "r3"}}

GenRankLists == SeqsUpTo(RankEntries, MaxRankLen)

GenScoreFns == [RankEntries -> -1..MaxScore]

\* Queries of the search-rule tool.
SearchQueries ==
    StringsUpTo({"a", " "}, MaxQueryLen) \cup
    { "thin-routes", " Thin-Routes ", "THIN", "boundary", "Boundary ", "coupling",
      "module", "data", "anti-pattern", "god-module", "api", "routes", "test",
      "migration", "event", "shared", "zzz", "no such rule", "e" }

\* Contexts of the search-by-context tool.
SearchContexts ==
    StringsUpTo({"a", " ", "?"}, MaxQueryLen) \cup
    { "my modules are importing internal files from each other",
      "the", "is it a", "what should we do", "x, y; z!", "I need to",
      "boundary coupling", "circular dependency between modules",
      "how can i test a module", "shared database tables", "thin routes",
      "event-bus", "constructor", "legacy monolith", "zz" }

\* The file system that maps each path of entries, a sequence of pairs of a
\* path and a node, to its node.
TreeOf(entries) ==
    [p \in {entries[i][1] : i \in 1..Len(entries)} |->
        entries[CHOOSE i \in 1..Len(entries) : entries[i][1] = p][2]]

\* The project the server is started in: two modules that import from each
\* other, a file directly in the modules directory and a dependency folder.
ProjectTree ==
    TreeOf(<<
      <<"/", Directory(<<"p">>)>>,
      <<"/p", Directory(<<"modules">>)>>,
      <<"/p/modules", Directory(<<"orders", "billing", "main.ts", "node_modules">>)>>,
      <<"/p/modules/main.ts",
        File(<<"import { ordersService } from \"./orders/orders.service.js\";">>)>>,
      <<"/p/modules/node_modules", Directory(<<"zod.ts">>)>>,
      <<"/p/modules/node_modules/zod.ts",
        File(<<"import { x } from \"../orders/orders.service.js\";">>)>>,
      <<"/p/modules/orders",
        Directory(<<"index.ts", "orders.service.ts", "orders.types.ts",
                    "orders.routes.ts">>)>>,
      <<"/p/modules/orders/index.ts",
        File(<<"export { ordersService } from \"./orders.service.js\";">>)>>,
      <<"/p/modules/orders/orders.service.ts",
        File(<<"import { z } from \"zod\";",
               "import { charge } from \"../billing/billing.service.js\";",
               "import type { Invoice } from '../billing';",
               "import { Order } from \"./orders.types.js\";">>)>>,
      <<"/p/modules/orders/orders.types.ts",
        File(<<"export interface Order { id: string }">>)>>,
      <<"/p/modules/orders/orders.routes.ts",
        File(<<"import { ordersService } from \"./index.js\";">>)>>,
      <<"/p/modules/billing", Directory(<<"index.js", "billing.service.ts", "README.md">>)>>,
      <<"/p/modules/billing/index.js",
        File(<<"export * from \"./billing.service.js\";">>)>>,
      <<"/p/modules/billing/billing.service.ts",
        File(<<"import { Order } from \"../orders/index.js\";",
               "import { ordersService } from \"../orders/orders.service.js\";">>)>>,
      <<"/p/modules/billing/README.md", File(<<"# Billing">>)>> >>)

\* The paths the validation tools are called with: every entry of the file
\* system, a directory with a trailing separator, a relative path and a path
\* that does not exist.
RequestPaths == DOMAIN fs \cup {"/p/modules/", "modules", "/p/missing"}

\* Longest generated module name.
MaxModuleNameLen == 3

\* Module names for get-template: kebab-case and not.
GenModuleNames ==
    StringsUpTo({"a", "1", "-"}, MaxModuleNameLen) \cup
    { "orders", "user-management", "payments", "Orders", "user_management",
      "user--management", "orders2", "order-2fa", "user management" }

Idle == [fn |-> "idle"]

NoResult == [none |-> TRUE]

Init ==
    /\ RULES = RulesData
    /\ ANTI_PATTERNS = AntiPatternsData
    /\ DECISION_TREES = DecisionTreesData
    /\ call = Idle
    /\ result = NoResult
    /\ fs = ProjectTree
    /\ inflight = << >>

\* The response is delivered and the server waits for the next request.
Return ==
    /\ call.fn # "idle"
    /\ call' = Idle
    /\ result' = NoResult
    /\ UNCHANGED <<catalog, surroundings>>

(***************************************************************************)
(* Applications of the pure functions to generated inputs.                 *)
(***************************************************************************)

ApplyScoreRuleByQuery ==
    /\ call.fn = "idle"
    /\ \E rule \in GenEntries \cup CatalogEntries :
         \E query \in IF rule \in GenEntries THEN GenQueries ELSE CatalogQueries(rule) :
            /\ call' = [fn |-> "scoreRuleByQuery", rule |-> rule, query |-> query]
            /\ result' = scoreRuleByQuery(rule, query)
    /\ UNCHANGED <<catalog, surroundings>>

ApplyScoreRuleByTokens ==
    /\ call.fn = "idle"
    /\ \E rule \in GenTokenEntries \cup CatalogEntries :
         \E tokens \in IF rule \in GenTokenEntries THEN GenTokenSeqs ELSE CatalogTokenSeqs,
            categoryBoosts \in GenBoostMaps :
         /\ call' = [fn |-> "scoreRuleByTokens", rule |-> rule, tokens |-> tokens,
                     categoryBoosts |-> categoryBoosts]
         /\ result' = scoreRuleByTokens(rule, tokens, categoryBoosts)
    /\ UNCHANGED <<catalog, surroundings>>

ApplyRankRules ==
    /\ call.fn = "idle"
    /\ \E rules \in GenRankLists, scoreFn \in GenScoreFns :
         /\ call' = [fn |-> "rankRules", rules |-> rules, scoreFn |-> scoreFn,
                     rulesAfter |-> rankRulesInputAfter(rules, scoreFn)]
         /\ result' = rankRules(rules, scoreFn)
    /\ UNCHANGED <<catalog, surroundings>>

ApplyFormatSearchResults ==
    /\ call.fn = "idle"
    /\ \E n \in 0..MaxRankedRules, m \in 0..MaxRankedAntiPatterns,
          emptyMessage \in {"No rules found matching that context.", "none"},
          remainingHeader \in {"Other matches", "Also relevant"},
          limit \in {[maxTotal |-> k] : k \in 0..MaxMaxTotal} \cup {EmptyMap} :
         LET rankedRules == SubSeq(RULES, 1, n)
             rankedAntiPatterns == SubSeq(antiPatternsAsRules(ANTI_PATTERNS), 1, m)
             options == [f \in {"emptyMessage", "remainingHeader"} \cup DOMAIN limit |->
                            CASE f = "emptyMessage" -> emptyMessage
                              [] f = "remainingHeader" -> remainingHeader
                              [] f = "maxTotal" -> limit.maxTotal]
         IN  /\ call' = [fn |-> "formatSearchResults", rankedRules |-> rankedRules,
                         rankedAntiPatterns |-> rankedAntiPatterns,
                         options |-> options]
             /\ result' = formatSearchResults(rankedRules, rankedAntiPatterns, options)
    /\ UNCHANGED <<catalog, surroundings>>

(***************************************************************************)
(* The requests the server handles.                                        *)
(***************************************************************************)

SearchRule ==
    /\ call.fn = "idle"
    /\ \E query \in SearchQueries :
         /\ call' = [fn |-> "search-rule", query |-> query]
         /\ result' = searchRule(query)
         /\ RULES' = rankRulesInputAfter(RULES, queryScoreFn(RULES, query))
    /\ UNCHANGED <<ANTI_PATTERNS, DECISION_TREES, surroundings>>

SearchByContext ==
    /\ call.fn = "idle"
    /\ \E context \in SearchContexts :
         LET tokens == removeStopWords(tokenize(context))
         IN  /\ call' = [fn |-> "search-by-context", context |-> context]
             /\ result' = searchByContext(context)
             /\ RULES' = rankRulesInputAfter(RULES,
                            tokenScoreFn(RULES, tokens, detectCategoryBoosts(tokens)))
    /\ UNCHANGED <<ANTI_PATTERNS, DECISION_TREES, surroundings>>

ListRules ==
    /\ call.fn = "idle"
    /\ \E args \in {[category |-> c] :
                       c \in CategorySet \cup {"", "Migration", "security"}}
                   \cup {EmptyMap} :
         /\ call' = [fn |-> "list-rules", args |-> args]
         /\ result' = listRules(args)
         /\ RULES' = IF "category" \in DOMAIN args /\ args.category # ""
                       THEN RULES
                       ELSE groupByCategoryInputAfter(RULES)
    /\ UNCHANGED <<ANTI_PATTERNS, DECISION_TREES, surroundings>>

ReadCatalog ==
    /\ call.fn = "idle"
    /\ call' = [fn |-> "modular://catalog"]
    /\ result' = readCatalog
    /\ RULES' = groupByCategoryInputAfter(RULES)
    /\ UNCHANGED <<ANTI_PATTERNS, DECISION_TREES, surroundings>>

ReadRule ==
    /\ call.fn = "idle"
    /\ \E id \in {RULES[i].id : i \in 1..Len(RULES)} \cup {"", "god-module", "Thin-Routes"} :
         /\ call' = [fn |-> "modular://rule/{id}", id |-> id]
         /\ result' = readRule(id)
    /\ UNCHANGED <<catalog, surroundings>>

ReadAntiPattern ==
    /\ call.fn = "idle"
    /\ \E id \in {ANTI_PATTERNS[i].id : i \in 1..Len(ANTI_PATTERNS)}
                 \cup {"", "thin-routes"} :
         /\ call' = [fn |-> "modular://anti-pattern/{id}", id |-> id]
         /\ result' = readAntiPattern(id)
    /\ UNCHANGED <<catalog, surroundings>>

ReadDecisionTree ==
    /\ call.fn = "idle"
    /\ \E id \in {DECISION_TREES[i].id : i \in 1..Len(DECISION_TREES)}
                 \cup {"", "start"} :
         /\ call' = [fn |-> "modular://decision-tree/{id}", id |-> id]
         /\ result' = readDecisionTree(id)
    /\ UNCHANGED <<catalog, surroundings>>

ArchitectureReview ==
    /\ call.fn = "idle"
    /\ \E args \in {[code |-> "x"], [code |-> "x", language |-> "ts"]}
                   \cup {[code |-> "x", focus_categories |-> f] :
                            f \in {"", "migration", " migration , shared-kernel",
                                   "none,nothing", ","}} :
         /\ call' = [fn |-> "architecture-review", args |-> args]
         /\ result' = architectureReview(args)
    /\ UNCHANGED <<catalog, surroundings>>

ModuleDesign ==
    /\ call.fn = "idle"
    /\ \E responsibilities \in {"", "create orders", "create orders, manage status"} :
         LET args == [module_name |-> "orders", description |-> "Orders.",
                      responsibilities |-> responsibilities]
         IN  /\ call' = [fn |-> "module-design", args |-> args]
             /\ result' = moduleDesign(args)
    /\ UNCHANGED <<catalog, surroundings>>

ValidateModule ==
    /\ call.fn = "idle"
    /\ \E path \in RequestPaths :
         /\ call' = [fn |-> "validate-module", path |-> path]
         /\ result' = validateModule(path)
    /\ UNCHANGED <<catalog, surroundings>>

CheckImports ==
    /\ call.fn = "idle"
    /\ \E path \in RequestPaths :
         /\ call' = [fn |-> "check-imports", path |-> path]
         /\ result' = checkImports(path)
    /\ UNCHANGED <<catalog, surroundings>>

GetTemplate ==
    /\ call.fn = "idle"
    /\ \E template \in RangeOf(TEMPLATE_NAMES), moduleName \in GenModuleNames :
         LET args == [template |-> template, moduleName |-> moduleName]
         IN  /\ call' = [fn |-> "get-template", args |-> args]
             /\ result' = getTemplate(args)
    /\ UNCHANGED <<catalog, surroundings>>

Next ==
    \/ SearchRule
    \/ SearchByContext
    \/ ListRules
    \/ ReadCatalog
    \/ ReadRule
    \/ ReadAntiPattern
    \/ ReadDecisionTree
    \/ ValidateModule
    \/ CheckImports
    \/ GetTemplate
    \/ ArchitectureReview
    \/ ModuleDesign
    \/ Return

\* The server and the requests it handles.
Spec == Init /\ [][Next]_vars

NextScore ==
    \/ ApplyScoreRuleByQuery
    \/ ApplyScoreRuleByTokens
    \/ Return

\* The scorer on generated inputs and on the entries of the catalog.
SpecScore == Init /\ [][NextScore]_vars

NextQueryScore ==
    \/ ApplyScoreRuleByQuery
    \/ Return

\* scoreRuleByQuery alone on generated inputs and on the entries of the
\* catalog.
SpecQueryScore == Init /\ [][NextQueryScore]_vars

NextRank ==
    \/ ApplyRankRules
    \/ Return

\* The ranker on generated inputs.
SpecRank == Init /\ [][NextRank]_vars

NextFormat ==
    \/ ApplyFormatSearchResults
    \/ SearchRule
    \/ SearchByContext
    \/ Return

\* The result formatter on generated inputs, and the two handlers that call it.
SpecFormat == Init /\ [][NextFormat]_vars

(***************************************************************************)
(* Properties of the scorer.                                               *)
(***************************************************************************)

\* The normalized form of a query: lower-cased and trimmed.
Normalized(query) == trim(toLowerCase(query))

\* C1: for every entry E and query Q whose trimmed, lower-cased form equals
\* E.id, scoreRuleByQuery(E, Q) is exactly 100: no name, tag, description or
\* category weight is added.
C1_ExactIdScores100 ==
    (call.fn = "scoreRuleByQuery" /\ Normalized(call.query) = call.rule.id)
        => result = 100

\* A query that differs from the id in case and surrounding white space
\* scored 100 on an entry whose name and category contain it as well.
C1_Witness ==
    /\ call.fn = "scoreRuleByQuery"
    /\ call.query # call.rule.id
    /\ Normalized(call.query) = call.rule.id
    /\ includes(toLowerCase(call.rule.name), call.rule.id)
    /\ result = 100

\* What one tag contributes for the normalized query q: 70 when equal,
\* otherwise 50 when one contains the other, otherwise 0.
TagContribution(tag, q) ==
    CASE tag = q -> 70
      [] tag # q /\ (includes(tag, q) \/ includes(q, tag)) -> 50
      [] OTHER -> 0

\* The score of an entry for a normalized query q other than its id, as the
\* sum of the four contributions.
FieldContributions(rule, q) ==
    (IF includes(toLowerCase(rule.name), q) THEN 80 ELSE 0)
    + SumSeq([i \in 1..Len(rule.tags) |-> TagContribution(rule.tags[i], q)])
    + (IF includes(toLowerCase(rule.description), q) THEN 30 ELSE 0)
    + (IF includes(rule.category, q) THEN 20 ELSE 0)

\* C2: for every entry E and query Q whose normalized form q is not E.id,
\* scoreRuleByQuery(E, Q) is 80 if the lower-cased name contains q, plus for
\* each tag exactly one of 70 (equal), 50 (different, one containing the
\* other) or 0, plus 30 if the lower-cased description contains q, plus 20 if
\* the category contains q.
C2_ScoreIsSumOfContributions ==
    (call.fn = "scoreRuleByQuery" /\ Normalized(call.query) # call.rule.id)
        => result = FieldContributions(call.rule, Normalized(call.query))

\* An entry with a tag equal to the query and a tag that contains it, scored
\* with every weight but the category's.
C2_Witness ==
    /\ call.fn = "scoreRuleByQuery"
    /\ Normalized(call.query) = "a"
    /\ call.rule.id # "a"
    /\ call.rule.tags = <<"a", "ab">>
    /\ call.rule.name = "B a"
    /\ call.rule.description = "ba"
    /\ result = 80 + 70 + 50 + 30

\* The text search-rule returns when nothing is ranked.
SearchRuleEmptyText(query) ==
    <<"No rules or anti-patterns found for \"" \o query \o "\".">>

\* C3 as stated: for a query that is empty, or empty after trimming,
\* scoreRuleByQuery is 0 for every entry of the catalog and search-rule
\* returns the empty-result message.
C3_EmptyQueryScoresNothing ==
    (call.fn = "search-rule" /\ trim(call.query) = "")
        => /\ \A rule \in RangeOf(RULES) \cup RangeOf(antiPatternsAsRules(ANTI_PATTERNS)) :
                scoreRuleByQuery(rule, call.query) = 0
           /\ result = textContent(SearchRuleEmptyText(call.query))

\* C4: for an empty token sequence (a context that is empty or holds only
\* separators, single characters and stop words), scoreRuleByTokens is 0 for
\* every entry, and search-by-context returns exactly the text "No rules
\* found matching that context.".
C4_NoTokensNoResults ==
    (call.fn = "search-by-context" /\ removeStopWords(tokenize(call.context)) = << >>)
        => /\ \A rule \in RangeOf(RULES) \cup RangeOf(antiPatternsAsRules(ANTI_PATTERNS)) :
                scoreRuleByTokens(rule, << >>, detectCategoryBoosts(<< >>)) = 0
           /\ result = textContent(<<"No rules found matching that context.">>)

\* A context of stop words and a single character was answered.
C4_Witness ==
    /\ call.fn = "search-by-context"
    /\ call.context = "is it a"
    /\ result = textContent(<<"No rules found matching that context.">>)

\* C5: scoreRuleByTokens(E, T, B) is the sum over the elements of T, a
\* repeated token counted once per occurrence, of scoreRuleByQuery(E, t),
\* plus 15 times B[E.category], an absent category counting as 0.
C5_TokenScoreIsSum ==
    call.fn = "scoreRuleByTokens"
        => result =
             SumSeq([i \in 1..Len(call.tokens) |->
                        scoreRuleByQuery(call.rule, call.tokens[i])])
             + 15 * (IF call.rule.category \in DOMAIN call.categoryBoosts
                       THEN call.categoryBoosts[call.rule.category]
                       ELSE 0)

\* A token that scores was given twice, to an entry whose category is
\* boosted.
C5_Witness ==
    /\ call.fn = "scoreRuleByTokens"
    /\ Len(call.tokens) = 2
    /\ call.tokens[1] = call.tokens[2]
    /\ scoreRuleByQuery(call.rule, call.tokens[1]) > 0
    /\ call.rule.category \in DOMAIN call.categoryBoosts
    /\ result = 2 * scoreRuleByQuery(call.rule, call.tokens[1])
                  + 15 * call.categoryBoosts[call.rule.category]

(***************************************************************************)
(* Properties of the ranker.                                               *)
(***************************************************************************)

\* How many positions of seq hold x.
Occurrences(seq, x) == Cardinality({i \in 1..Len(seq) : seq[i] = x})

\* C6: for every input list and scoring function, rankRules returns only
\* entries whose score is greater than 0, each element of the input with such
\* a score exactly once, no more entries than the input holds, and in an
\* order in which the score never increases from one position to the next.
C6_RankedPositiveOnceDescending ==
    call.fn = "rankRules"
        => /\ \A i \in 1..Len(result) : call.scoreFn[result[i]] > 0
           /\ \A rule \in DOMAIN call.scoreFn :
                Occurrences(result, rule) =
                    IF call.scoreFn[rule] > 0 THEN Occurrences(call.rules, rule) ELSE 0
           /\ Len(result) <= Len(call.rules)
           /\ \A i \in 1..(Len(result) - 1) :
                call.scoreFn[result[i]] >= call.scoreFn[result[i + 1]]

\* An input in ascending order of score, one of its entries scoring 0, was
\* ranked.
C6_Witness ==
    /\ call.fn = "rankRules"
    /\ Len(call.rules) = 3
    /\ call.scoreFn[call.rules[1]] = 0
    /\ call.scoreFn[call.rules[2]] = 1
    /\ call.scoreFn[call.rules[3]] = 2
    /\ result = <<call.rules[3], call.rules[2]>>

\* The entries of seq whose score is s, in the order seq has them.
WithScore(seq, scoreFn, s) == filterIn(seq, {rule \in DOMAIN scoreFn : scoreFn[rule] = s})

\* C7: in the output of rankRules, entries with equal scores appear in the
\* relative order they have in the input list.
C7_TiesKeepInputOrder ==
    call.fn = "rankRules"
        => \A s \in {call.scoreFn[rule] : rule \in DOMAIN call.scoreFn} :
              s > 0 => WithScore(result, call.scoreFn, s)
                         = WithScore(call.rules, call.scoreFn, s)

\* Two different entries with the same score were ranked, behind them in the
\* input an entry that scores more.
C7_Witness ==
    /\ call.fn = "rankRules"
    /\ Len(call.rules) = 3
    /\ call.rules[1] # call.rules[2]
    /\ call.scoreFn[call.rules[1]] = 1
    /\ call.scoreFn[call.rules[2]] = 1
    /\ call.scoreFn[call.rules[3]] = 2
    /\ result = <<call.rules[3], call.rules[1], call.rules[2]>>

(***************************************************************************)
(* Properties of the catalog.                                              *)
(***************************************************************************)

\* C8: after any sequence of search-rule, search-by-context, list-rules,
\* resource reads and prompt calls, RULES, ANTI_PATTERNS and DECISION_TREES
\* hold the entries they held at start-up, in the same order: rankRules and
\* the grouping and formatting functions leave their input lists unchanged.
C8_CatalogNeverChanges ==
    /\ RULES = RulesData
    /\ ANTI_PATTERNS = AntiPatternsData
    /\ DECISION_TREES = DecisionTreesData

\* A search whose ranking of the rules differs from the catalog's order was
\* answered.
C8_Witness ==
    /\ call.fn = "search-rule"
    /\ LET ranked == rankRules(RulesData, queryScoreFn(RulesData, call.query))
       IN  /\ Len(ranked) >= 2
           /\ ranked # SubSeq(RulesData, 1, Len(ranked))

(***************************************************************************)
(* Properties of the result formatter.                                     *)
(***************************************************************************)

\* C9: formatSearchResults called with two empty ranked lists returns a
\* single text item whose text is exactly options.emptyMessage, whatever
\* maxTotal is.
C9_EmptyListsGiveEmptyMessage ==
    (/\ call.fn = "formatSearchResults"
     /\ call.rankedRules = << >>
     /\ call.rankedAntiPatterns = << >>)
        => /\ Len(result.content) = 1
           /\ result.content[1] = [type |-> "text", text |-> <<call.options.emptyMessage>>]

\* Two empty lists were formatted with a maxTotal that would admit entries.
C9_Witness ==
    /\ call.fn = "formatSearchResults"
    /\ call.rankedRules = << >>
    /\ call.rankedAntiPatterns = << >>
    /\ "maxTotal" \in DOMAIN call.options
    /\ call.options.maxTotal > MAX_DETAILED_RESULTS
    /\ result.content[1].text = <<call.options.emptyMessage>>

Min(a, b) == IF a < b THEN a ELSE b

\* The lines of text that start with prefix, in order.
LinesStarting(text, prefix) ==
    LET Starts(line) == startsWith(line, prefix)
    IN  SelectSeq(text, Starts)

\* The heading a detailed block opens with.
DetailHeading(entry, isRule) ==
    IF isRule THEN "## " \o entry.name ELSE "## ! Anti-Pattern: " \o entry.name

\* text shows the first min(maxTotal, |rules| + |antiPatterns|) entries of
\* rules followed by antiPatterns: the first three of them as detailed blocks
\* (heading and id line), the others as bullets under the overflow header,
\* which is there exactly when there is a bullet; with nothing to show the
\* text is the empty message.
ShowsFirst(text, rules, antiPatterns, maxTotal, header, emptyMessage) ==
    LET all == rules \o antiPatterns
        count == Min(maxTotal, Len(all))
        nDetailed == Min(3, count)
        headerAt == {i \in 1..Len(text) : text[i] = "### " \o header}
        cut == IF headerAt = {} THEN Len(text) + 1
               ELSE CHOOSE i \in headerAt : \A j \in headerAt : i <= j
        blocks == SubSeq(text, 1, cut - 1)
        list == SubSeq(text, cut + 1, Len(text))
        bullets == LinesStarting(list, "- **")
    IN  IF count = 0 THEN text = <<emptyMessage>>
        ELSE /\ LinesStarting(blocks, "## ") =
                  [i \in 1..nDetailed |-> DetailHeading(all[i], i <= Len(rules))]
             /\ LinesStarting(blocks, "**ID:** |") =
                  [i \in 1..nDetailed |-> "**ID:** |" \o all[i].id \o "|"]
             /\ Cardinality(headerAt) = (IF count > nDetailed THEN 1 ELSE 0)
             /\ Len(bullets) = count - nDetailed
             /\ \A i \in 1..Len(bullets) :
                  startsWith(bullets[i],
                             "- **" \o all[nDetailed + i].name \o "** (|"
                                 \o all[nDetailed + i].id \o "|)")
             /\ count = nDetailed => list = << >>

\* C10: formatSearchResults shows exactly the first min(maxTotal, |rules| +
\* |antiPatterns|) entries of rules followed by antiPatterns, the first
\* min(3, that count) as detailed blocks and the others as summary bullets,
\* with the overflow header if and only if there is a bullet; search-rule
\* uses maxTotal 10 and the header "Other matches", search-by-context
\* maxTotal 8 and the header "Also relevant".
C10_ShowsFirstEntries ==
    /\ call.fn = "formatSearchResults"
         => ShowsFirst(result.content[1].text, call.rankedRules, call.rankedAntiPatterns,
                       IF "maxTotal" \in DOMAIN call.options
                         THEN call.options.maxTotal ELSE 10,
                       call.options.remainingHeader, call.options.emptyMessage)
    /\ call.fn = "search-rule"
         => LET asRules == antiPatternsAsRules(ANTI_PATTERNS)
            IN  ShowsFirst(result.content[1].text,
                           rankRules(RULES, queryScoreFn(RULES, call.query)),
                           rankRules(asRules, queryScoreFn(asRules, call.query)),
                           10, "Other matches", SearchRuleEmptyText(call.query)[1])
    /\ call.fn = "search-by-context"
         => LET asRules == antiPatternsAsRules(ANTI_PATTERNS)
                tokens == removeStopWords(tokenize(call.context))
                boosts == detectCategoryBoosts(tokens)
            IN  ShowsFirst(result.content[1].text,
                           rankRules(RULES, tokenScoreFn(RULES, tokens, boosts)),
                           rankRules(asRules, tokenScoreFn(asRules, tokens, boosts)),
                           8, "Also relevant", "No rules found matching that context.")

\* More entries than maxTotal were formatted, an anti-pattern among the
\* bullets and the last anti-pattern cut off.
C10_Witness ==
    /\ call.fn = "formatSearchResults"
    /\ "maxTotal" \in DOMAIN call.options
    /\ call.options.maxTotal > Len(call.rankedRules)
    /\ call.options.maxTotal < Len(call.rankedRules) + Len(call.rankedAntiPatterns)
    /\ Len(call.rankedRules) > MAX_DETAILED_RESULTS
    /\ Len(LinesStarting(result.content[1].text, "**ID:** |")) = 3

(***************************************************************************)
(* Properties of the search handlers on the catalog.                       *)
(***************************************************************************)

\* The lines of a search response before its overflow header: the detailed
\* section.
DetailedSection(text, header) ==
    LET headerAt == {i \in 1..Len(text) : text[i] = "### " \o header}
        cut == IF headerAt = {} THEN Len(text) + 1
               ELSE CHOOSE i \in headerAt : \A j \in headerAt : i <= j
    IN  SubSeq(text, 1, cut - 1)

\* The entries a search response shows in detail: those whose id line is in
\* its detailed section.
ShownDetailed(text, header, entries) ==
    LET idLines == RangeOf(LinesStarting(DetailedSection(text, header), "**ID:** |"))
    IN  {entry \in entries : ("**ID:** |" \o entry.id \o "|") \in idLines}

\* C11 as stated: in every search-rule response, no entry that is shown only
\* in the summary list or dropped by the 10-result limit has a strictly
\* higher query score than an entry shown in the detailed section.
C11_DetailedAreTopMatches ==
    call.fn = "search-rule"
        => LET entries == RangeOf(RULES) \cup RangeOf(antiPatternsAsRules(ANTI_PATTERNS))
               score == queryScoreFn(RULES \o antiPatternsAsRules(ANTI_PATTERNS), call.query)
               detailed == ShownDetailed(result.content[1].text, "Other matches", entries)
               shownScores == {score[entry] : entry \in detailed}
               otherScores == {score[entry] : entry \in entries \ detailed}
           IN  \A shown \in shownScores, other \in otherScores : other <= shown

\* C12: search-rule with the query "thin-routes" returns the rule with id
\* thin-routes as the first result, with score 100 and no other entry before
\* it, as a detailed block whose heading holds its name "Thin Routes".
C12_ThinRoutesComesFirst ==
    (call.fn = "search-rule" /\ call.query = "thin-routes")
        => LET text == result.content[1].text
               rule == findRuleById("thin-routes")
               ranked == rankRules(RULES, queryScoreFn(RULES, call.query))
           IN  /\ rule # undefinedEntry
               /\ scoreRuleByQuery(rule, call.query) = 100
               /\ ranked[1] = rule
               /\ text[1] = "## Thin Routes"
               /\ LinesStarting(text, "## ")[1] = "## " \o rule.name
               /\ LinesStarting(text, "**ID:** |")[1] = "**ID:** |thin-routes|"

\* The search for "thin-routes" was answered with three detailed blocks and
\* a summary list.
C12_Witness ==
    /\ call.fn = "search-rule"
    /\ call.query = "thin-routes"
    /\ result.content[1].text[1] = "## Thin Routes"
    /\ Len(LinesStarting(result.content[1].text, "**ID:** |")) = 3
    /\ \E i \in 1..Len(result.content[1].text) :
          result.content[1].text[i] = "### Other matches"

\* The context of the documented search-by-context scenario.
ImportingContext == "my modules are importing internal files from each other"

\* C13 as stated: for the context "my modules are importing internal files
\* from each other", detectCategoryBoosts of the tokenized, stop-word-filtered
\* context has a count greater than 0 for module-structure and a count
\* greater than 0 for module-boundaries.
C13_ImportingContextBoostsBoth ==
    (call.fn = "search-by-context" /\ call.context = ImportingContext)
        => LET boosts == detectCategoryBoosts(removeStopWords(tokenize(call.context)))
           IN  /\ boostOf(boosts, "module-structure") > 0
               /\ boostOf(boosts, "module-boundaries") > 0

\* The lines of a search response after its overflow header: the summary
\* list.
SummarySection(text, header) ==
    SubSeq(text, Len(DetailedSection(text, header)) + 2, Len(text))

\* The response shows the entry with this id, in detail or as a bullet.
ShowsId(text, header, id) ==
    \/ \E i \in 1..Len(DetailedSection(text, header)) :
          DetailedSection(text, header)[i] = "**ID:** |" \o id \o "|"
    \/ \E i \in 1..Len(SummarySection(text, header)) :
          /\ startsWith(SummarySection(text, header)[i], "- **")
          /\ includes(SummarySection(text, header)[i], "** (|" \o id \o "|) ~ ")

\* How many entries the response shows.
ShownCount(text, header) ==
    Len(LinesStarting(DetailedSection(text, header), "**ID:** |"))
    + Len(LinesStarting(SummarySection(text, header), "- **"))

\* C14: for the context "my modules are importing internal files from each
\* other", the tokens left after stop-word removal contain modules,
\* importing, internal and files, and the search-by-context response holds
\* the rules no-direct-module-imports and hide-implementation-details among
\* its at most 8 results.
C14_ImportingContextFindsRules ==
    (call.fn = "search-by-context" /\ call.context = ImportingContext)
        => LET tokens == removeStopWords(tokenize(call.context))
               text == result.content[1].text
           IN  /\ {"modules", "importing", "internal", "files"} \subseteq RangeOf(tokens)
               /\ ShowsId(text, "Also relevant", "no-direct-module-imports")
               /\ ShowsId(text, "Also relevant", "hide-implementation-details")
               /\ ShownCount(text, "Also relevant") <= 8

\* The context was answered with eight results, three of them in detail.
C14_Witness ==
    /\ call.fn = "search-by-context"
    /\ call.context = ImportingContext
    /\ ShownCount(result.content[1].text, "Also relevant") = 8
    /\ Len(LinesStarting(DetailedSection(result.content[1].text, "Also relevant"),
                         "**ID:** |")) = 3

(***************************************************************************)
(* The text functions on generated inputs.                                 *)
(***************************************************************************)

\* Longest generated text handed to tokenize.
MaxTextLen == 4

\* Longest generated token sequence handed to removeStopWords.
MaxStopSeqLen == 3

\* Longest generated description handed to truncateDescription.
MaxDescLen == 4

\* Largest generated maxLength handed to truncateDescription.
MaxTruncLen == 4

\* Generated texts: both cases, a digit, a hyphen and two separators; texts
\* with other white space; and the contexts of the search.
GenTexts ==
    StringsUpTo({"a", "B", "7", "-", " ", "?"}, MaxTextLen)
    \cup {"ab\ncd", "a\tbc  de", "Thin-Routes, please!", "x_y__zz"}
    \cup SearchContexts

\* Generated token sequences: stop words and other words.
GenStopSeqs ==
    SeqsUpTo({"the", "is", "module", "data"}, MaxStopSeqLen)
    \cup {tokenize(text) : text \in SearchContexts}

\* Texts whose tokens are handed to detectCategoryBoosts.
BoostTexts ==
    SearchContexts \cup
    { "module data module", "events and events", "a thin route handler",
      "Module MODULE modules", "contract contract-test", "nothing here",
      "the constructor of the service", "legacy monolith migration" }

\* Generated descriptions: letters and blanks; the ten-character examples;
\* and the descriptions of the catalog.
GenDescriptions ==
    StringsUpTo({"a", "b", " "}, MaxDescLen)
    \cup {"abcdefghij", "abcd fghij"}

CatalogDescriptions == {entry.description : entry \in CatalogEntries}

ApplyTokenize ==
    /\ call.fn = "idle"
    /\ \E text \in GenTexts :
         /\ call' = [fn |-> "tokenize", text |-> text]
         /\ result' = tokenize(text)
    /\ UNCHANGED <<catalog, surroundings>>

ApplyRemoveStopWords ==
    /\ call.fn = "idle"
    /\ \E tokens \in GenStopSeqs :
         /\ call' = [fn |-> "removeStopWords", tokens |-> tokens]
         /\ result' = removeStopWords(tokens)
    /\ UNCHANGED <<catalog, surroundings>>

ApplyDetectCategoryBoosts ==
    /\ call.fn = "idle"
    /\ \E text \in BoostTexts :
         /\ call' = [fn |-> "detectCategoryBoosts", text |-> text,
                     tokens |-> tokenize(text)]
         /\ result' = detectCategoryBoosts(tokenize(text))
    /\ UNCHANGED <<catalog, surroundings>>

ApplyTruncateDescription ==
    /\ call.fn = "idle"
    /\ \E description \in GenDescriptions \cup CatalogDescriptions :
         \E maxLength \in IF description \in GenDescriptions
                            THEN 0..MaxTruncLen \cup {5, DEFAULT_MAX_LENGTH}
                            ELSE {DEFAULT_MAX_LENGTH} :
            /\ call' = [fn |-> "truncateDescription", description |-> description,
                        maxLength |-> maxLength]
            /\ result' = truncateDescription(description, maxLength)
    /\ UNCHANGED <<catalog, surroundings>>

NextText ==
    \/ ApplyTokenize
    \/ ApplyRemoveStopWords
    \/ ApplyDetectCategoryBoosts
    \/ ApplyTruncateDescription
    \/ Return

\* The tokenizer and the truncation on generated inputs.
SpecText == Init /\ [][NextText]_vars

(***************************************************************************)
(* Properties of the tokenizer and of the truncation.                      *)
(***************************************************************************)

\* The characters a token may hold: a-z, 0-9 and the hyphen.
TokenAlphabet == CharsOf("abcdefghijklmnopqrstuvwxyz0123456789-")

\* The maximal runs of token characters of s that are longer than one
\* character, each as the pair of its first and last position.
LongRuns(s) ==
    LET isTok(i) == charAt(s, i) \in TokenAlphabet
    IN  {run \in (1..Len(s)) \X (1..Len(s)) :
            /\ run[1] < run[2]
            /\ \A k \in run[1]..run[2] : isTok(k)
            /\ run[1] = 1 \/ ~isTok(run[1] - 1)
            /\ run[2] = Len(s) \/ ~isTok(run[2] + 1)}

\* C15: every token returned by tokenize has length at least 2 and holds only
\* the characters a-z, 0-9 and hyphen; the tokens are the maximal runs of such
\* characters of the lower-cased text, in their order of appearance, the runs
\* of length 0 or 1 left out.
C15_TokensAreLongRuns ==
    call.fn = "tokenize"
        => LET lower == toLowerCase(call.text)
               runs == LongRuns(lower)
           IN  /\ \A i \in 1..Len(result) :
                    /\ Len(result[i]) >= 2
                    /\ CharsOf(result[i]) \subseteq TokenAlphabet
               /\ Len(result) = Cardinality(runs)
               /\ \A run \in runs :
                    result[1 + Cardinality({other \in runs : other[1] < run[1]})]
                        = SubSeq(lower, run[1], run[2])

\* A text with an upper-case letter, a separator and a run of one character
\* was tokenized.
C15_Witness ==
    /\ call.fn = "tokenize"
    /\ call.text = "aB?7"
    /\ result = <<"ab">>

\* C16: removeStopWords applied twice gives what it gives applied once, and
\* removeStopWords(T) is the subsequence of T, in the original order, of the
\* tokens that are not in the stop-word set.
C16_StopWordRemovalIdempotent ==
    call.fn = "removeStopWords"
        => /\ removeStopWords(result) = result
           /\ result = filterIn(call.tokens, RangeOf(call.tokens) \ STOP_WORDS)

\* A sequence with a stop word between two other words, one of them
\* repeated, was filtered.
C16_Witness ==
    /\ call.fn = "removeStopWords"
    /\ call.tokens = <<"data", "the", "data">>
    /\ result = <<"data", "data">>

\* The categories the keyword table names for a token: none or one.
KeywordCategories(token) ==
    {c \in CategorySet : token \in KeywordsOf(c)}

\* C17 as stated: for every token sequence produced by tokenize, every key of
\* the map returned by detectCategoryBoosts is one of the 10 categories, and
\* the value for a category is the number of tokens, counted with repetition,
\* that the keyword table maps to it; other tokens contribute nothing.
C17_BoostsCountKeywords ==
    call.fn = "detectCategoryBoosts"
        => /\ DOMAIN result \subseteq CategorySet
           /\ \A c \in CategorySet :
                boostOf(result, c) =
                    Cardinality({i \in 1..Len(call.tokens) :
                                    c \in KeywordCategories(call.tokens[i])})

\* The first maxLength characters of description without the white space at
\* their end.
TrimmedPrefix(description, maxLength) ==
    LET k == CHOOSE k \in 0..maxLength :
                /\ k = 0 \/ charAt(description, k) \notin WhiteSpace
                /\ \A j \in (k + 1)..maxLength : charAt(description, j) \in WhiteSpace
    IN  SubSeq(description, 1, k)

\* C18, amended: truncateDescription(d, n) returns d unchanged when the
\* length of d is at most n; when d is longer it returns the first n
\* characters of d, without the white space at their end, followed by "...".
C18_TruncatesToTrimmedPrefix ==
    call.fn = "truncateDescription"
        => IF Len(call.description) <= call.maxLength
             THEN result = call.description
             ELSE result = TrimmedPrefix(call.description, call.maxLength) \o "..."

\* C18 as stated: when d is longer than n the result is exactly the first n
\* characters of d followed by "...".
C18_TruncatesToExactPrefix ==
    call.fn = "truncateDescription"
        => IF Len(call.description) <= call.maxLength
             THEN result = call.description
             ELSE result = SubSeq(call.description, 1, call.maxLength) \o "..."

\* A ten-character description was cut at 5 behind a blank: four characters
\* and the marker are left.
C18_Witness ==
    /\ call.fn = "truncateDescription"
    /\ call.description = "abcd fghij"
    /\ call.maxLength = 5
    /\ result = "abcd..."

(***************************************************************************)
(* Properties of the catalog tools and resources.                          *)
(***************************************************************************)

\* The entries of rules whose category is c, in the order of rules.
OfCategory(rules, c) ==
    LET InCategory(rule) == rule.category = c
    IN  SelectSeq(rules, InCategory)

\* text lists exactly these entries as bullets, in this order, under the
\* count of them; an empty list is the text "No rules found.".
ListsEntries(text, entries) ==
    LET bullets == LinesStarting(text, "- **")
    IN  IF entries = << >> THEN text = <<"No rules found.">>
        ELSE /\ text[1] = "Found **" \o ToString(Len(entries)) \o "** rule(s):"
             /\ Len(bullets) = Len(entries)
             /\ Len(text) = Len(entries) + 2
             /\ \A i \in 1..Len(entries) :
                  startsWith(bullets[i],
                             "- **" \o entries[i].name \o "** (|" \o entries[i].id \o "|) ~ ")

\* C19: for every valid category c, list-rules(category = c) lists exactly
\* the entries of RULES whose category is c, each once and in catalog order;
\* for "migration" these are strangler-fig-pattern, extract-module-gradually,
\* start-monolith-first and measure-before-splitting, in that order.
C19_ListRulesFiltersByCategory ==
    (/\ call.fn = "list-rules"
     /\ "category" \in DOMAIN call.args
     /\ call.args.category \in CategorySet)
        => /\ ListsEntries(result.content[1].text, OfCategory(RULES, call.args.category))
           /\ call.args.category = "migration"
                => [i \in 1..Len(OfCategory(RULES, "migration")) |->
                       OfCategory(RULES, "migration")[i].id]
                   = <<"strangler-fig-pattern", "extract-module-gradually",
                       "start-monolith-first", "measure-before-splitting">>

\* The migration rules were listed: four bullets.
C19_Witness ==
    /\ call.fn = "list-rules"
    /\ "category" \in DOMAIN call.args
    /\ call.args.category = "migration"
    /\ Len(LinesStarting(result.content[1].text, "- **")) = 4

\* No two positions of entries hold the same id.
UniqueIds(entries) ==
    \A i, j \in 1..Len(entries) : entries[i].id = entries[j].id => i = j

\* contents is the answer of a by-id resource for this id: the one entry of
\* entries with the id, or a JSON object holding the error text.
AnswersById(contents, entries, id, kind) ==
    LET matches == {i \in 1..Len(entries) : entries[i].id = id}
    IN  /\ Len(contents) = 1
        /\ contents[1].mimeType = "application/json"
        /\ IF matches = {}
             THEN contents[1].json = [error |-> kind \o " \"" \o id \o "\" not found"]
             ELSE /\ Cardinality(matches) = 1
                  /\ \A i \in matches : contents[1].json = entries[i]

\* C20: ids are unique within RULES, within ANTI_PATTERNS and within
\* DECISION_TREES, so lookup-by-id returns the one entry whose id is the
\* argument when it exists and undefined otherwise; the rule, anti-pattern and
\* decision-tree resources answer an unknown id with a JSON object holding an
\* error text.
C20_LookupByUniqueId ==
    /\ UniqueIds(RULES)
    /\ UniqueIds(ANTI_PATTERNS)
    /\ UniqueIds(DECISION_TREES)
    /\ call.fn = "modular://rule/{id}"
         => /\ AnswersById(result.contents, RULES, call.id, "Rule")
            /\ (findRuleById(call.id) = undefinedEntry)
                 = (\A i \in 1..Len(RULES) : RULES[i].id # call.id)
    /\ call.fn = "modular://anti-pattern/{id}"
         => /\ AnswersById(result.contents, ANTI_PATTERNS, call.id, "Anti-pattern")
            /\ (findAntiPatternById(call.id) = undefinedEntry)
                 = (\A i \in 1..Len(ANTI_PATTERNS) : ANTI_PATTERNS[i].id # call.id)
    /\ call.fn = "modular://decision-tree/{id}"
         => /\ AnswersById(result.contents, DECISION_TREES, call.id, "Decision tree")
            /\ (findDecisionTreeById(call.id) = undefinedEntry)
                 = (\A i \in 1..Len(DECISION_TREES) : DECISION_TREES[i].id # call.id)

\* The rule resource was read with the id of an anti-pattern, which no rule
\* has, and answered with the error object.
C20_Witness ==
    /\ call.fn = "modular://rule/{id}"
    /\ call.id = "god-module"
    /\ \E i \in 1..Len(ANTI_PATTERNS) : ANTI_PATTERNS[i].id = call.id
    /\ result.contents[1].json = [error |-> "Rule \"god-module\" not found"]

(***************************************************************************)
(* The grouped views of the catalog.                                       *)
(***************************************************************************)

\* Longest generated list of rules to group.
MaxGroupLen == 4

\* Five rules of three categories.
GroupEntries ==
    { Entry("g1", "G1", "migration", "", << >>),
      Entry("g2", "G2", "module-structure", "", << >>),
      Entry("g3", "G3", "migration", "", << >>),
      Entry("g4", "G4", "testing-strategy", "", << >>),
      Entry("g5", "G5", "module-structure", "", << >>) }

\* Lists of distinct rules, in every order.
GenGroupLists ==
    {rules \in SeqsUpTo(GroupEntries, MaxGroupLen) :
        \A i, j \in 1..Len(rules) : rules[i] = rules[j] => i = j}

ApplyFormatCatalogGrouped ==
    /\ call.fn = "idle"
    /\ \E rules \in GenGroupLists :
         /\ call' = [fn |-> "formatCatalogGrouped", rules |-> rules,
                     rulesAfter |-> groupByCategoryInputAfter(rules)]
         /\ result' = formatCatalogGrouped(rules)
    /\ UNCHANGED <<catalog, surroundings>>

NextCatalog ==
    \/ ApplyFormatCatalogGrouped
    \/ ListRules
    \/ ReadCatalog
    \/ Return

\* The grouped views: formatCatalogGrouped on generated lists, list-rules and
\* the catalog resource on RULES.
SpecCatalog == Init /\ [][NextCatalog]_vars

\* The categories of rules, each once, in the order of their first rule.
FirstSeenCategories(rules) ==
    LET First(i) == \A j \in 1..(i - 1) : rules[j].category # rules[i].category
        firsts == SelectSeq([i \in 1..Len(rules) |-> i], First)
    IN  [k \in 1..Len(firsts) |-> rules[firsts[k]].category]

\* The bullet of a rule in the grouped text.
CatalogBullet(rule) == "- **" \o rule.name \o "** (|" \o rule.id \o "|)"

\* text is the grouped view of rules: one heading per category in first-seen
\* order, under each the bullets of its rules in the order of rules, and so
\* one bullet per rule.
GroupedTextShows(text, rules) ==
    LET cats == FirstSeenCategories(rules)
        heads == sortedSeqOf({i \in 1..Len(text) : startsWith(text[i], "## ")})
        sectionEnd(k) == IF k = Len(heads) THEN Len(text) ELSE heads[k + 1] - 1
        bullets == LinesStarting(text, "- **")
    IN  /\ Len(heads) = Len(cats)
        /\ \A k \in 1..Len(heads) :
             /\ text[heads[k]] = "## " \o CATEGORY_LABELS[cats[k]]
             /\ LinesStarting(SubSeq(text, heads[k], sectionEnd(k)), "- **")
                  = [i \in 1..Len(OfCategory(rules, cats[k])) |->
                        CatalogBullet(OfCategory(rules, cats[k])[i])]
        /\ Len(bullets) = Len(rules)
        /\ \A i \in 1..Len(rules) : Occurrences(bullets, CatalogBullet(rules[i])) = 1

\* json is the grouped view of rules as the resource gives it: one property
\* per category label in first-seen order, holding the id and name of its
\* rules in the order of rules.
GroupedJsonShows(json, rules) ==
    LET cats == FirstSeenCategories(rules)
    IN  /\ Len(json) = Len(cats)
        /\ \A k \in 1..Len(cats) :
             /\ json[k].key = CATEGORY_LABELS[cats[k]]
             /\ json[k].list
                  = [i \in 1..Len(OfCategory(rules, cats[k])) |->
                        [id |-> OfCategory(rules, cats[k])[i].id,
                         name |-> OfCategory(rules, cats[k])[i].name]]
        /\ SumSeq([k \in 1..Len(json) |-> Len(json[k].list)]) = Len(rules)

\* C21: the grouped catalog views (list-rules without a category and the
\* modular://catalog resource) list the categories in the order in which each
\* category first occurs in RULES, and within each category the rules in
\* their RULES order, every rule exactly once; formatCatalogGrouped does so
\* for every list of rules it is given.
C21_GroupedViewsKeepFirstSeenOrder ==
    /\ (call.fn = "list-rules" /\ "category" \notin DOMAIN call.args)
         => GroupedTextShows(result.content[1].text, RULES)
    /\ call.fn = "modular://catalog"
         => GroupedJsonShows(result.contents[1].json, RULES)
    /\ call.fn = "formatCatalogGrouped"
         => GroupedTextShows(result, call.rules)

\* list-rules was called without a category and answered with the 35 rules
\* under the 10 categories.
C21_Witness ==
    /\ call.fn = "list-rules"
    /\ "category" \notin DOMAIN call.args
    /\ Len(LinesStarting(result.content[1].text, "## ")) = 10
    /\ Len(LinesStarting(result.content[1].text, "- **")) = 35

(***************************************************************************)
(* Properties of the decision trees.                                       *)
(***************************************************************************)

\* An edge value that is a final answer.
IsAnswer(edge) == startsWith(edge, "ANSWER:")

\* The ids of the nodes of a tree.
NodeIds(tree) == {tree.nodes[i].id : i \in 1..Len(tree.nodes)}

\* The nodes the edges of the node id lead to.
Successors(tree, id) ==
    {edge \in UNION {{tree.nodes[i].yes, tree.nodes[i].no} :
                        i \in {k \in 1..Len(tree.nodes) : tree.nodes[k].id = id}} :
        ~IsAnswer(edge)}

\* The nodes reached from the nodes of frontier by one edge or more.
RECURSIVE ReachedFrom(_, _, _)
ReachedFrom(tree, frontier, seen) ==
    LET next == UNION {Successors(tree, id) : id \in frontier}
    IN  IF next \subseteq seen THEN seen
        ELSE ReachedFrom(tree, next \ seen, seen \cup next)

\* Following answers from the node at, from the k-th answer on, ends in a
\* final answer before the answers run out.
RECURSIVE ReachesAnswer(_, _, _, _)
ReachesAnswer(tree, at, answers, k) ==
    /\ k <= Len(answers)
    /\ at \in NodeIds(tree)
    /\ LET node == findById(tree.nodes, at)
           edge == IF answers[k] = "yes" THEN node.yes ELSE node.no
       IN  IsAnswer(edge) \/ ReachesAnswer(tree, edge, answers, k + 1)

WellFormedTree(tree) ==
    /\ Cardinality({i \in 1..Len(tree.nodes) : tree.nodes[i].id = "start"}) = 1
    /\ UniqueIds(tree.nodes)
    /\ \A i \in 1..Len(tree.nodes) :
         \A edge \in {tree.nodes[i].yes, tree.nodes[i].no} :
            IsAnswer(edge) \/ edge \in NodeIds(tree)
    /\ \A id \in NodeIds(tree) : id \notin ReachedFrom(tree, {id}, {})
    /\ NodeIds(tree) \ {"start"} \subseteq ReachedFrom(tree, {"start"}, {})
    /\ \A answers \in [1..Len(tree.nodes) -> {"yes", "no"}] :
         ReachesAnswer(tree, "start", answers, 1)

\* C22: in each of the 3 decision trees there is exactly one node with id
\* "start", node ids are unique, every yes/no edge value either begins with
\* "ANSWER:" or is the id of a node of the same tree, the node graph has no
\* cycle and every other node is reachable from "start"; so every sequence of
\* yes/no answers from "start" reaches an ANSWER in at most as many steps as
\* the tree has nodes.
C22_DecisionTreesAreRootedDags ==
    /\ Len(DECISION_TREES) = 3
    /\ \A t \in 1..Len(DECISION_TREES) : WellFormedTree(DECISION_TREES[t])

\* The tree in which two questions lead to the same third one was read
\* through its resource.
C22_Witness ==
    /\ call.fn = "modular://decision-tree/{id}"
    /\ call.id = "when-to-extract-microservice"
    /\ result.contents[1].json = DECISION_TREES[3]
    /\ "team-ownership" \in Successors(DECISION_TREES[3], "start")
    /\ "team-ownership" \in Successors(DECISION_TREES[3], "independent-deploy")

(***************************************************************************)
(* Monotonicity of the scorer.                                             *)
(***************************************************************************)

\* A tag matches a query under the scoring rules: it equals it, contains it
\* or is contained in it.
TagMatches(tag, q) == tag = q \/ includes(tag, q) \/ includes(q, tag)

\* Values a field is replaced with to obtain an entry with one match fewer.
ReplacementIds == {"a", "ab", "ba", "zz"}

ReplacementNames == {"Ab", "B a", "Zz"}

ReplacementDescriptions == {"", "A b", "ba"}

ReplacementTags == {"a", "ab", "zz"}

\* The entries that are rule with the id replaced by one that q does not
\* match, when q matches the id of rule.
FewerById(rule, q) ==
    IF rule.id = q
      THEN {[rule EXCEPT !.id = v] : v \in {w \in ReplacementIds : w # q}}
      ELSE {}

\* The entries that are rule but for the name, one tag, the description or
\* the category, which q matches in rule and does not match in the entry.
FewerByOtherField(rule, q) ==
    (IF includes(toLowerCase(rule.name), q)
       THEN {[rule EXCEPT !.name = v] :
                v \in {w \in ReplacementNames : ~includes(toLowerCase(w), q)}}
       ELSE {})
    \cup
    (IF includes(toLowerCase(rule.description), q)
       THEN {[rule EXCEPT !.description = v] :
                v \in {w \in ReplacementDescriptions : ~includes(toLowerCase(w), q)}}
       ELSE {})
    \cup
    (IF includes(rule.category, q)
       THEN {[rule EXCEPT !.category = v] :
                v \in {w \in GenCategories : ~includes(w, q)}}
       ELSE {})
    \cup
    UNION {{[rule EXCEPT !.tags[i] = v] :
                v \in {w \in ReplacementTags : ~TagMatches(w, q)}} :
              i \in {k \in 1..Len(rule.tags) : TagMatches(rule.tags[k], q)}}

\* C25, for the name, the tags, the description and the category: for every
\* query Q and any two entries E1 and E2 that are identical except that one
\* more of these fields of E2 matches Q, scoreRuleByQuery(E2, Q) >=
\* scoreRuleByQuery(E1, Q) >= 0; an entry whose id Q matches scores 100
\* whatever its other fields score.
C25_ScoreMonotoneBesidesId ==
    call.fn = "scoreRuleByQuery"
        => /\ result >= 0
           /\ call.rule.id = Normalized(call.query)
                => result = SCORE_WEIGHTS.EXACT_ID_MATCH
           /\ \A E1 \in FewerByOtherField(call.rule, Normalized(call.query)) :
                /\ scoreRuleByQuery(E1, call.query) >= 0
                /\ result >= scoreRuleByQuery(E1, call.query)

\* C25 as stated: the same with the id among the fields, so that an entry
\* whose id Q matches scores no less than the same entry under another id.
C25_ScoreMonotoneInMatches ==
    call.fn = "scoreRuleByQuery"
        => /\ result >= 0
           /\ \A E1 \in FewerById(call.rule, Normalized(call.query))
                           \cup FewerByOtherField(call.rule, Normalized(call.query)) :
                /\ scoreRuleByQuery(E1, call.query) >= 0
                /\ result >= scoreRuleByQuery(E1, call.query)

\* An entry one tag of which matches the query was scored higher than the
\* same entry with another tag in its place.
C25_Witness ==
    /\ call.fn = "scoreRuleByQuery"
    /\ call.rule.id # Normalized(call.query)
    /\ call.rule.tags = <<"ab", "a">>
    /\ call.query = "ab"
    /\ [call.rule EXCEPT !.tags[1] = "zz"]
          \in FewerByOtherField(call.rule, Normalized(call.query))
    /\ result > scoreRuleByQuery([call.rule EXCEPT !.tags[1] = "zz"], call.query)

(***************************************************************************)
(* Properties of list-rules on an invalid category.                        *)
(***************************************************************************)

\* C26 as stated: list-rules called with a category argument that is not one
\* of the 10 valid categories returns the text 'Invalid category
\* "<category>". Valid categories: ...' and lists no rules; the full grouped
\* catalog is returned only when no category argument is supplied.
C26_InvalidCategoryIsRejected ==
    call.fn = "list-rules"
        => /\ ("category" \in DOMAIN call.args /\ call.args.category \notin CategorySet)
                => /\ Len(result.content[1].text) = 1
                   /\ startsWith(result.content[1].text[1],
                                 "Invalid category \"" \o call.args.category
                                    \o "\". Valid categories: ")
                   /\ LinesStarting(result.content[1].text, "- **") = << >>
           /\ result.content[1].text[1] = "# Modular Monolith Architecture Rules Catalog"
                => "category" \notin DOMAIN call.args

(***************************************************************************)
(* The validation tools on generated file systems.                         *)
(***************************************************************************)

\* Most entries of a generated module directory.
MaxDirEntries == 6

\* Most lines of the generated file of an import tree.
MaxImportLines == 2

\* The names a generated module directory draws from: the three required and
\* the three recommended files of the module, and entries that are none.
DirNamePool ==
    << "orders.service.ts", "orders.types.ts", "index.ts",
       "orders.repository.ts", "orders.validation.ts", "orders.routes.ts",
       "index.js", "types.ts", "README.md" >>

\* The listings of a generated module directory: the names of the pool at the
\* positions of a set, in the order of the pool.
GenDirListings ==
    {LET At(i) == i \in S
         chosen == SelectSeq([i \in 1..Len(DirNamePool) |-> i], At)
     IN  [k \in 1..Len(chosen) |-> DirNamePool[chosen[k]]] :
        S \in {T \in SUBSET (1..Len(DirNamePool)) : Cardinality(T) <= MaxDirEntries}}

\* A project whose one module holds empty files of these names.
ModuleTree(names) ==
    TreeOf(<< <<"/", Directory(<<"p">>)>>,
              <<"/p", Directory(<<"modules">>)>>,
              <<"/p/modules", Directory(<<"orders">>)>>,
              <<"/p/modules/orders", Directory(names)>> >>
           \o [i \in 1..Len(names) |->
                 <<"/p/modules/orders/" \o names[i], File(<<"">>)>>])

\* The import paths of the generated lines: into another module through its
\* index and past it, within the module, outside the modules directory,
\* packages, and paths with segments that normalization removes.
GenImportPaths ==
    { "../billing", "../billing/", "../billing/index", "../billing/index.ts",
      "../billing/index.js", "../billing/index.tsx", "../billing/internal",
      "../billing/internal/deep", "../billing/index/x", "../billing/billing/index",
      "../billing//internal", "../billing/./internal", "./../billing/internal.ts",
      "../../billing/internal", "../../billing", "../../modules/billing/internal",
      "../../../p/modules/billing/index", "../../outside/internal",
      "./helper", "./sub/b", "../orders/a", "../a", "../root", "..", ".",
      "../billing/.", "../billing/internal/..",
      "billing/internal", "zod", ".hidden/../../billing/internal" }

\* The generated lines: an import of each path, and lines with other quotes,
\* two imports, a re-export, a dynamic import, a comment and no closing
\* quote.
GenImportLines ==
    {"import { x } from \"" \o p \o "\";" : p \in GenImportPaths}
    \cup
    { "",
      "import '../billing/internal';",
      "export * from '../billing/internal'",
      "const x = await import(\"../billing/internal\");",
      "// see ../billing/internal",
      "import a from \"../billing/internal\"; import b from \"../billing/index\";",
      "import   x from\t\"../billing/internal'",
      "import x from \"../billing/internal" }

\* The lines that follow the first line of a generated file: an import of
\* an internal file and one of the index of the other module.
GenFollowingLines ==
    { "import { y } from \"../billing/internal\";",
      "import { z } from \"../billing\";" }

\* The generated files: a generated line and following lines.
GenImportContents ==
    {<<first>> \o following :
        first \in GenImportLines,
        following \in SeqsUpTo(GenFollowingLines, MaxImportLines - 1)}

\* The files of an import tree that take the generated lines.
GenImportFiles ==
    {"/p/modules/orders/a.ts", "/p/modules/orders/sub/b.ts", "/p/modules/root.ts"}

\* A project of two modules in which the file at takes the lines; a file of
\* billing imports an internal file of orders.
ImportTree(at, lines) ==
    TreeOf(<< <<at, File(lines)>> >>)
    @@ TreeOf(<< <<"/", Directory(<<"p">>)>>,
                 <<"/p", Directory(<<"modules">>)>>,
                 <<"/p/modules", Directory(<<"orders", "billing", "root.ts">>)>>,
                 <<"/p/modules/root.ts",
                   File(<<"import { y } from \"./billing/internal\";">>)>>,
                 <<"/p/modules/orders", Directory(<<"a.ts", "sub">>)>>,
                 <<"/p/modules/orders/a.ts", File(<<"export const a = 1;">>)>>,
                 <<"/p/modules/orders/sub", Directory(<<"b.ts">>)>>,
                 <<"/p/modules/orders/sub/b.ts", File(<<"export const b = 2;">>)>>,
                 <<"/p/modules/billing", Directory(<<"index.ts", "internal.ts">>)>>,
                 <<"/p/modules/billing/index.ts",
                   File(<<"export * from \"./internal\";">>)>>,
                 <<"/p/modules/billing/internal.ts",
                   File(<<"import { a } from \"../orders/a\";">>)>> >>)

\* The project with a file of billing that may not be read.
LockedFileTree ==
    TreeOf(<< <<"/p/modules/billing",
                Directory(<<"index.js", "billing.service.ts", "secret.ts">>)>>,
              <<"/p/modules/billing/secret.ts",
                LockedFile(<<"import { o } from \"../orders/orders.types\";">>)>> >>)
    @@ ProjectTree

\* The project with entries that cannot be read or are passed over: a file
\* that may not be read, a directory that may not be listed, a socket, a
\* build folder, a declaration file and a .tsx file.
FaultyTrees ==
    { LockedFileTree,
      TreeOf(<< <<"/p/modules/orders",
                  Directory(<<"index.ts", "orders.service.ts", "private">>)>>,
                <<"/p/modules/orders/private", LockedDirectory(<<"key.ts">>)>>,
                <<"/p/modules/orders/private/key.ts", File(<<"">>)>> >>)
        @@ ProjectTree,
      TreeOf(<< <<"/p/modules/billing",
                  Directory(<<"index.js", "billing.service.ts", "live.ts", "build",
                              "api.d.ts", "view.tsx">>)>>,
                <<"/p/modules/billing/live.ts", OtherEntry>>,
                <<"/p/modules/billing/build", Directory(<<"out.ts">>)>>,
                <<"/p/modules/billing/build/out.ts",
                  File(<<"import { o } from \"../../orders/orders.types\";">>)>>,
                <<"/p/modules/billing/api.d.ts",
                  File(<<"import { o } from \"../orders/orders.types\";">>)>>,
                <<"/p/modules/billing/view.tsx",
                  File(<<"import { o } from \"../orders/orders.types\";">>)>> >>)
        @@ ProjectTree,
      TreeOf(<< <<"/p", LockedDirectory(<<"modules">>)>> >>) @@ ProjectTree }

\* The file systems the validation tools are checked on.
GenFileSystems ==
    {ProjectTree}
    \cup FaultyTrees
    \cup {ModuleTree(names) : names \in GenDirListings}
    \cup {ImportTree(at, lines) :
            at \in GenImportFiles,
            lines \in GenImportContents}

InitFiles ==
    /\ RULES = RulesData
    /\ ANTI_PATTERNS = AntiPatternsData
    /\ DECISION_TREES = DecisionTreesData
    /\ call = Idle
    /\ result = NoResult
    /\ fs \in GenFileSystems
    /\ inflight = << >>

NextFiles ==
    \/ ValidateModule
    \/ CheckImports
    \/ Return

\* validate-module and check-imports, one call at a time, on the generated
\* file systems.
SpecFiles == InitFiles /\ [][NextFiles]_vars

(***************************************************************************)
(* C28: the required items of validate-module.                             *)
(***************************************************************************)

\* The names of the entries of the directory a validate-module call names.
ListedNames ==
    LET listing == readdir(fs, call.path)
    IN  {listing.value[i].name : i \in 1..Len(listing.value)}

\* A validate-module call whose directory could be read has been answered.
ValidatedReadable ==
    /\ call.fn = "validate-module"
    /\ ~readdir(fs, call.path).threw

\* The report marks the required item of this label as PASS.
MarkedPass(label) ==
    \E i \in 1..Len(result.content[1].text) :
        startsWith(result.content[1].text[i], "- [PASS] " \o label \o " ")

\* C28: validate-module marks the item "Public API (index.ts barrel)" as PASS
\* exactly when the directory has an entry named index.ts, the service item
\* exactly when it has an entry with ".service." in its name and the types
\* item exactly when it has an entry with ".types." in its name.
C28_RequiredItemsPassOnTheirFiles ==
    ValidatedReadable
        => /\ MarkedPass("Public API (index.ts barrel)") <=> "index.ts" \in ListedNames
           /\ MarkedPass("Service (business logic)")
                <=> \E n \in ListedNames : includes(n, ".service.")
           /\ MarkedPass("Types (domain models)")
                <=> \E n \in ListedNames : includes(n, ".types.")

\* The barrel item passes on a directory that has no index.ts.
C28_BarrelPassesWithoutIndexTs ==
    /\ ValidatedReadable
    /\ MarkedPass("Public API (index.ts barrel)")
    /\ "index.ts" \notin ListedNames

\* Apart from the barrel item the statement holds: the item passes exactly
\* when some entry has "index." in its name.
C28_RequiredItemsPassOnTheirPatterns ==
    ValidatedReadable
        => /\ MarkedPass("Public API (index.ts barrel)")
                <=> \E n \in ListedNames : includes(n, "index.")
           /\ MarkedPass("Service (business logic)")
                <=> \E n \in ListedNames : includes(n, ".service.")
           /\ MarkedPass("Types (domain models)")
                <=> \E n \in ListedNames : includes(n, ".types.")

(***************************************************************************)
(* C29: the compliance score of validate-module.                           *)
(***************************************************************************)

\* The items of a check list that these names satisfy.
ItemsFound(items, names) ==
    Cardinality({i \in 1..Len(items) : \E n \in names : includes(n, items[i].pattern)})

\* round(70 * r / 3 + 30 * c / 3) without a division: the integer n with
\* n - 1/2 <= (70 * r + 30 * c) / 3 < n + 1/2.
IsRoundedScore(n, r, c) ==
    /\ 6 * n - 3 <= 2 * (70 * r + 30 * c)
    /\ 2 * (70 * r + 30 * c) < 6 * n + 3

\* The scores that the summary of a report states.
ScoresStated(text) ==
    LET IsScoreLine(line) == startsWith(line, "- Compliance score: **")
        stated == SelectSeq(text, IsScoreLine)
    IN  {n \in 0..200 :
            \E i \in 1..Len(stated) :
                stated[i] = "- Compliance score: **" \o ToString(n) \o "%**"}

\* The report of the directory with one more entry of this name.
ReportWithEntry(name) ==
    LET listing == readdir(fs, call.path)
    IN  validationReport(call.path,
            [i \in 1..Len(listing.value) |-> listing.value[i].name] \o <<name>>)

\* C29: for r required and c recommended items found, validate-module
\* reports the score round(70*r/3 + 30*c/3), an integer in 0..100 that is 100
\* exactly when r = c = 3 and 0 exactly when r = c = 0; a directory with one
\* more entry never scores less; and the report has the section "Actions"
\* exactly when r < 3.
C29_ComplianceScore ==
    ValidatedReadable
        => LET text == result.content[1].text
               r == ItemsFound(REQUIRED_FILES, ListedNames)
               c == ItemsFound(RECOMMENDED_FILES, ListedNames)
           IN  /\ r \in 0..3 /\ c \in 0..3
               /\ Cardinality(ScoresStated(text)) = 1
               /\ \A n \in ScoresStated(text) :
                    /\ IsRoundedScore(n, r, c)
                    /\ n \in 0..100
                    /\ n = 100 <=> (r = 3 /\ c = 3)
                    /\ n = 0 <=> (r = 0 /\ c = 0)
                    /\ \A i \in 1..Len(DirNamePool) :
                         \A m \in ScoresStated(ReportWithEntry(DirNamePool[i])) : n <= m
               /\ (\E i \in 1..Len(text) : text[i] = "## Actions") <=> r < 3

\* A directory with two required and one recommended item has been scored 57,
\* and the report has the section "Actions".
C29_Witness ==
    /\ ValidatedReadable
    /\ ItemsFound(REQUIRED_FILES, ListedNames) = 2
    /\ ItemsFound(RECOMMENDED_FILES, ListedNames) = 1
    /\ ScoresStated(result.content[1].text) = {57}
    /\ \E i \in 1..Len(result.content[1].text) : result.content[1].text[i] = "## Actions"

(***************************************************************************)
(* C30: the module names get-template accepts.                             *)
(***************************************************************************)

\* A kebab-case name read character by character: it starts with a lowercase
\* letter, holds only lowercase letters, digits and hyphens, no hyphen
\* follows a hyphen and none ends the name.
IsKebabCase(name) ==
    /\ Len(name) > 0
    /\ charAt(name, 1) \in CharsOf(LowerLetters)
    /\ \A i \in 1..Len(name) :
         charAt(name, i) \in CharsOf(LowerLetters) \cup CharsOf(Digits) \cup {"-"}
    /\ \A i \in 1..(Len(name) - 1) : ~(charAt(name, i) = "-" /\ charAt(name, i + 1) = "-")
    /\ charAt(name, Len(name)) # "-"

\* The one line that refuses a module name.
IsInvalidModuleNameText(text, name) ==
    /\ Len(text) = 1
    /\ startsWith(text[1], "Invalid module name \"" \o name \o "\"")

\* C30: get-template generates a template only when moduleName matches
\* ^[a-z][a-z0-9]*(-[a-z0-9]+)*$ and answers every other name with the one
\* line "Invalid module name ..."; for every accepted name toPascalCase and
\* toCamelCase hold no hyphen and differ only in the case of their first
\* character.
C30_GetTemplateAcceptsKebabCaseOnly ==
    call.fn = "get-template"
        => LET name == call.args.moduleName
               text == result.content[1].text
               pascal == toPascalCase(name)
               camel == toCamelCase(name)
           IN  /\ ~IsKebabCase(name) => IsInvalidModuleNameText(text, name)
               /\ IsKebabCase(name)
                    => /\ text = generateTemplate(call.args.template, name)
                       /\ ~IsInvalidModuleNameText(text, name)
                       /\ ~includes(pascal, "-") /\ ~includes(camel, "-")
                       /\ Len(pascal) = Len(camel)
                       /\ SubSeq(pascal, 2, Len(pascal)) = SubSeq(camel, 2, Len(camel))
                       /\ charAt(camel, 1) \in CharsOf(LowerLetters)
                       /\ charAt(pascal, 1) = upperChar(charAt(camel, 1))
                       /\ charAt(pascal, 1) # charAt(camel, 1)

\* A template has been generated for user-management, which is written
\* UserManagement and userManagement.
C30_Witness ==
    /\ call.fn = "get-template"
    /\ call.args.moduleName = "user-management"
    /\ call.args.template = "service"
    /\ toPascalCase("user-management") = "UserManagement"
    /\ toCamelCase("user-management") = "userManagement"
    /\ \E i \in 1..Len(result.content[1].text) :
         includes(result.content[1].text[i], "UserManagementService")

(***************************************************************************)
(* C27: the violations check-imports reports.                              *)
(***************************************************************************)

\* The segments of a path below a directory, or none when the path does not
\* lie below it.
SegmentsBelow(dir, p) ==
    LET d == IF resolve(dir) = "/" THEN <<"">> ELSE split(resolve(dir), "/")
        q == split(resolve(p), "/")
    IN  IF Len(q) > Len(d) /\ SubSeq(q, 1, Len(d)) = d
          THEN SubSeq(q, Len(d) + 1, Len(q))
          ELSE << >>

\* The module a path lies in: the directory of the modules directory that
\* the path lies below, or null for a path outside it or directly in it.
ModuleAt(modulesDir, p) ==
    IF Len(SegmentsBelow(modulesDir, p)) >= 2
      THEN <<SegmentsBelow(modulesDir, p)[1]>>
      ELSE null

\* The import path, after its first segment equal to the module, continues
\* with more than nothing, "index", "index.js", "index.ts" or "".
ContinuesPastIndex(importPath, module) ==
    LET parts == split(importPath, "/")
    IN  \E k \in 1..Len(parts) :
            /\ parts[k] = module
            /\ \A j \in 1..(k - 1) : parts[j] # module
            /\ SubSeq(parts, k + 1, Len(parts))
                 \notin {<< >>, <<"index">>, <<"index.js">>, <<"index.ts">>, <<"">>}

\* A relative import (one that starts with a dot) of a file of module A
\* crosses a boundary: it resolves into another module B and goes on past
\* the index of B.
CrossesBoundary(modulesDir, file, importPath) ==
    LET A == ModuleAt(modulesDir, file)
        B == ModuleAt(modulesDir, dirname(file) \o "/" \o importPath)
    IN  /\ startsWith(importPath, ".")
        /\ A # null
        /\ B # null
        /\ B # A
        /\ ContinuesPastIndex(importPath, B[1])

\* The line that lists an import of a file.
ViolationBullet(modulesDir, file, lineNumber, importPath) ==
    LET below == SegmentsBelow(modulesDir, file)
        name == concatAll([i \in 1..Len(below) |->
                              IF i = 1 THEN below[i] ELSE "/" \o below[i]])
    IN  "- |" \o name \o ":" \o ToString(lineNumber) \o "| imports |" \o importPath \o "|"

\* The lines that list the boundary crossings among the imports found in the
\* scanned files that can be read.
ExpectedBullets(fsys, modulesDir) ==
    LET files == walkDir(fsys, modulesDir).value
    IN  flatten([f \in 1..Len(files) |->
            LET content == readFile(fsys, files[f])
            IN  IF content.threw THEN << >>
                ELSE flatten([i \in 1..Len(content.value) |->
                        LET Crosses(importPath) ==
                                CrossesBoundary(modulesDir, files[f], importPath)
                            crossing == SelectSeq(importPathsFrom(content.value[i], 1),
                                                  Crosses)
                        IN  [k \in 1..Len(crossing) |->
                                ViolationBullet(modulesDir, files[f], i, crossing[k])]])])

\* A check-imports call whose directories could all be listed has been
\* answered.
ImportsChecked ==
    /\ call.fn = "check-imports"
    /\ ~walkDir(fs, call.path).threw

\* C27: check-imports lists an import found in a scanned file of module A
\* exactly when it is relative, resolves into another module B and, after its
\* first segment equal to B, goes on with more than nothing, "index",
\* "index.js", "index.ts" or ""; so imports within a module, imports that are
\* not relative and files directly in the modules directory are never listed;
\* and the count of the result line is the number of imports listed.
C27_ViolationsAreBoundaryCrossings ==
    ImportsChecked
        => LET text == result.content[1].text
               listed == LinesStarting(text, "- |")
               expected == ExpectedBullets(fs, call.path)
           IN  /\ \A i \in 1..Len(listed) :
                    Occurrences(listed, listed[i]) = Occurrences(expected, listed[i])
               /\ \A i \in 1..Len(expected) :
                    Occurrences(listed, expected[i]) = Occurrences(expected, expected[i])
               /\ \A i \in 1..Len(listed) :
                    \E k \in 12..Len(listed[i]) :
                        /\ charAt(listed[i], k) = "."
                        /\ SubSeq(listed[i], k - 11, k - 1) = "| imports |"
               /\ \A i \in 1..Len(listed) :
                    \E k \in 4..Len(listed[i]) :
                        /\ charAt(listed[i], k) = "/"
                        /\ ~includes(SubSeq(listed[i], 4, k), ":")
               /\ IF listed = << >>
                    THEN /\ text[5] = "## Result: No violations found"
                         /\ LinesStarting(text, "### ") = << >>
                    ELSE text[5] = "## Result: " \o ToString(Len(listed))
                                       \o " violation(s) found"
               /\ \A i \in 1..Len(text) :
                    \A m \in {"orders", "billing"} : text[i] # "### " \o m \o " ^ " \o m

\* The file a.ts of the module orders imports the internal file of billing:
\* the report lists it and counts two violations.
C27_Witness ==
    /\ ImportsChecked
    /\ call.path = "/p/modules"
    /\ readFile(fs, "/p/modules/orders/a.ts")
         = Fulfilled(<<"import { x } from \"../billing/internal\";">>)
    /\ \E i \in 1..Len(result.content[1].text) :
         result.content[1].text[i] = "- |orders/a.ts:1| imports |../billing/internal|"
    /\ result.content[1].text[5] = "## Result: 2 violation(s) found"

(***************************************************************************)
(* C24: no tool handler lets a failure escape.                             *)
(***************************************************************************)

InitTools ==
    /\ RULES = RulesData
    /\ ANTI_PATTERNS = AntiPatternsData
    /\ DECISION_TREES = DecisionTreesData
    /\ call = Idle
    /\ result = NoResult
    /\ fs \in {ProjectTree} \cup FaultyTrees
    /\ inflight = << >>

NextTools ==
    \/ SearchRule
    \/ SearchByContext
    \/ ListRules
    \/ GetTemplate
    \/ ValidateModule
    \/ CheckImports
    \/ Return

\* The six tools, one call at a time, on the project and on the projects with
\* entries that cannot be read.
SpecTools == InitTools /\ [][NextTools]_vars

ToolNames ==
    {"search-rule", "search-by-context", "list-rules", "get-template",
     "validate-module", "check-imports"}

\* The outcome of a handler is a response of one text, not a rejection.
IsTextResponse(outcome) ==
    /\ DOMAIN outcome = {"content"}
    /\ Len(outcome.content) = 1
    /\ outcome.content[1].type = "text"
    /\ Len(outcome.content[1].text) >= 1

\* The files below the directory of a check-imports call that readFile
\* rejects.
UnreadableFilesBelow(path) ==
    {p \in DOMAIN fs :
        /\ fs[p].kind = "file"
        /\ ~fs[p].readable
        /\ SegmentsBelow(path, p) # << >>}

\* C24: every tool handler answers with a text response; validate-module and
\* check-imports answer a directory that is missing or cannot be read with a
\* text that starts "Could not read directory: <path>"; check-imports passes
\* over a file it cannot read and still returns its report; list-rules and
\* get-template answer an invalid category or module name with a text.
C24_NoHandlerThrows ==
    call.fn \in ToolNames
        => /\ IsTextResponse(result)
           /\ (call.fn \in {"validate-module", "check-imports"}
                 /\ readdir(fs, call.path).threw)
                => result.content[1].text[1] = "Could not read directory: " \o call.path
           /\ (call.fn = "check-imports"
                 /\ ~walkDir(fs, call.path).threw
                 /\ UnreadableFilesBelow(call.path) # {})
                => /\ result.content[1].text[1] = "# Import Boundary Check"
                   /\ startsWith(result.content[1].text[5], "## Result: ")
           /\ (call.fn = "list-rules"
                 /\ "category" \in DOMAIN call.args
                 /\ call.args.category \notin CategorySet \cup {""})
                => startsWith(result.content[1].text[1], "Invalid category ")
           /\ (call.fn = "get-template" /\ ~IsKebabCase(call.args.moduleName))
                => startsWith(result.content[1].text[1], "Invalid module name ")

\* check-imports has met a file it cannot read among the seven files it scans
\* and has returned its report with the two violations of the other files.
C24_Witness ==
    /\ call.fn = "check-imports"
    /\ call.path = "/p/modules"
    /\ readFile(fs, "/p/modules/billing/secret.ts").threw
    /\ ~walkDir(fs, call.path).threw
    /\ "/p/modules/billing/secret.ts" \in RangeOf(walkDir(fs, call.path).value)
    /\ IsTextResponse(result)
    /\ result.content[1].text[3] = "**Scanned:** 7 files in /p/modules"
    /\ result.content[1].text[5] = "## Result: 2 violation(s) found"
    /\ \A i \in 1..Len(result.content[1].text) :
         ~includes(result.content[1].text[i], "secret.ts")

(***************************************************************************)
(* Tool calls in flight at once.  A handler runs from one await to the     *)
(* next without interruption; readdir and readFile are the awaited         *)
(* operations.  inflight holds, for every slot, the call that occupies it  *)
(* with its position and its local variables.                              *)
(***************************************************************************)

\* Most calls in flight at once.
MaxInFlight == 2

Slots == 1..MaxInFlight

FreeSlot ==
    [pc |-> "free", fn |-> "", input |-> [none |-> TRUE], work |-> << >>,
     allFiles |-> << >>, next |-> 0, violations |-> << >>, response |-> NoResult]

\* A call whose handler has returned this response.
Done(fn, input, response) ==
    [FreeSlot EXCEPT !.pc = "done", !.fn = fn, !.input = input, !.response = response]

\* A call suspended at its first readdir.
AtReaddir(fn, path) ==
    [FreeSlot EXCEPT !.pc = "readdir", !.fn = fn, !.input = [path |-> path],
                     !.work = <<[path |-> path, name |-> "", kind |-> "dir"]>>]

\* One slot for the variables of every call, as if violations were declared
\* outside the handler.
localsShared(i) == 1

\* The slot that holds the variables violations and importRegex of the call
\* in slot i: they are declared in the handler, so every call has its own.
localsOf(i) == i

\* The inputs of the calls in flight.
ConcurrentPaths == {"/p/modules", "/p/missing"}

ConcurrentQueries == {"module"}

ConcurrentContexts == {"thin routes"}

ConcurrentArgs == {[category |-> "testing"]}

\* walkDir up to its next readdir, the recursion unfolded into the list of
\* the entries still to visit: files are collected and entries that are not
\* walked are dropped until a directory to walk comes first.
RECURSIVE advanceWalk(_, _)
advanceWalk(work, files) ==
    IF work = << >> THEN [work |-> << >>, files |-> files]
    ELSE IF Head(work).kind = "dir" /\ isWalkedDirectory(Head(work).name)
      THEN [work |-> work, files |-> files]
    ELSE IF Head(work).kind = "file" /\ isScannedFile(Head(work).name)
      THEN advanceWalk(Tail(work), Append(files, Head(work).path))
    ELSE advanceWalk(Tail(work), files)

\* The loop over allFiles up to its next readFile: the first file from on
\* that lies in a module, or Len(allFiles) + 1.
nextRead(allFiles, from, path) ==
    LET reads == {k \in from..Len(allFiles) : extractModuleName(allFiles[k], path) # null}
    IN  IF reads = {} THEN Len(allFiles) + 1
        ELSE CHOOSE k \in reads : \A j \in reads : k <= j

\* check-imports from file k of allFiles on, violations being the list its
\* variable holds: it is suspended at the readFile of that file, or past the
\* last file it returns its report.
scanFrom(calls, i, violations, k) ==
    IF k > Len(calls[i].allFiles)
      THEN [calls EXCEPT ![i] =
              Done(calls[i].fn, calls[i].input,
                   textContent(importReport(calls[i].input.path, calls[i].allFiles,
                                            violations)))]
      ELSE [calls EXCEPT ![i].pc = "readFile", ![i].next = k]

\* check-imports after walkDir: violations is created empty and the loop over
\* allFiles starts.
afterWalk(calls, i) ==
    LET created == [calls EXCEPT ![localsOf(i)].violations = << >>]
    IN  scanFrom(created, i, created[localsOf(i)].violations,
                 nextRead(calls[i].allFiles, 1, calls[i].input.path))

BeginSearchRule(i) ==
    /\ inflight[i].pc = "free"
    /\ \E query \in ConcurrentQueries :
         /\ inflight' = [inflight EXCEPT
                            ![i] = Done("search-rule", [query |-> query], searchRule(query))]
         /\ RULES' = rankRulesInputAfter(RULES, queryScoreFn(RULES, query))
    /\ UNCHANGED <<ANTI_PATTERNS, DECISION_TREES, call, result, fs>>

BeginSearchByContext(i) ==
    /\ inflight[i].pc = "free"
    /\ \E context \in ConcurrentContexts :
         LET tokens == removeStopWords(tokenize(context))
         IN  /\ inflight' = [inflight EXCEPT
                                ![i] = Done("search-by-context", [context |-> context],
                                            searchByContext(context))]
             /\ RULES' = rankRulesInputAfter(RULES,
                            tokenScoreFn(RULES, tokens, detectCategoryBoosts(tokens)))
    /\ UNCHANGED <<ANTI_PATTERNS, DECISION_TREES, call, result, fs>>

BeginListRules(i) ==
    /\ inflight[i].pc = "free"
    /\ \E args \in ConcurrentArgs :
         /\ inflight' = [inflight EXCEPT
                            ![i] = Done("list-rules", [args |-> args], listRules(args))]
         /\ RULES' = IF "category" \in DOMAIN args /\ args.category # ""
                       THEN RULES
                       ELSE groupByCategoryInputAfter(RULES)
    /\ UNCHANGED <<ANTI_PATTERNS, DECISION_TREES, call, result, fs>>

\* validate-module up to its await of readdir.
BeginValidateModule(i) ==
    /\ inflight[i].pc = "free"
    /\ \E path \in ConcurrentPaths :
         inflight' = [inflight EXCEPT ![i] = AtReaddir("validate-module", path)]
    /\ UNCHANGED <<catalog, call, result, fs>>

\* validate-module from the outcome of readdir to its return.
ResumeValidateModule(i) ==
    /\ inflight[i].pc = "readdir"
    /\ inflight[i].fn = "validate-module"
    /\ inflight' = [inflight EXCEPT
                       ![i] = Done(inflight[i].fn, inflight[i].input,
                                   validateModuleOn(inflight[i].input.path,
                                       readdir(fs, inflight[i].input.path)))]
    /\ UNCHANGED <<catalog, call, result, fs>>

\* check-imports up to the first readdir of walkDir.
BeginCheckImports(i) ==
    /\ inflight[i].pc = "free"
    /\ \E path \in ConcurrentPaths :
         inflight' = [inflight EXCEPT ![i] = AtReaddir("check-imports", path)]
    /\ UNCHANGED <<catalog, call, result, fs>>

\* check-imports from the outcome of a readdir of walkDir to the next await
\* or to its return.
ResumeReaddir(i) ==
    /\ inflight[i].pc = "readdir"
    /\ inflight[i].fn = "check-imports"
    /\ LET c == inflight[i]
           dir == Head(c.work).path
           listing == readdir(fs, dir)
       IN  IF listing.threw
             THEN inflight' = [inflight EXCEPT
                      ![i] = Done(c.fn, c.input,
                                  couldNotRead(c.input.path,
                                      "Make sure the path exists and contains module directories."))]
             ELSE LET entries == [k \in 1..Len(listing.value) |->
                                     [path |-> join(dir, listing.value[k].name),
                                      name |-> listing.value[k].name,
                                      kind |-> listing.value[k].kind]]
                      walk == advanceWalk(entries \o Tail(c.work), c.allFiles)
                      walked == [inflight EXCEPT ![i].work = walk.work,
                                                 ![i].allFiles = walk.files]
                  IN  inflight' = IF walk.work = << >> THEN afterWalk(walked, i)
                                  ELSE walked
    /\ UNCHANGED <<catalog, call, result, fs>>

\* check-imports from the outcome of a readFile to the next await or to its
\* return.
ResumeReadFile(i) ==
    /\ inflight[i].pc = "readFile"
    /\ LET c == inflight[i]
           file == c.allFiles[c.next]
       IN  \E found \in {violationsOfFile(file, readFile(fs, file), c.input.path)} :
             \E pushed \in {[inflight EXCEPT ![localsOf(i)].violations = @ \o found]} :
               \E violations \in {pushed[localsOf(i)].violations} :
                 inflight' = scanFrom(pushed, i, violations,
                                      nextRead(c.allFiles, c.next + 1, c.input.path))
    /\ UNCHANGED <<catalog, call, result, fs>>

\* The response of a returned handler is sent and its call is over.
Respond(i) ==
    /\ inflight[i].pc = "done"
    /\ inflight' = [inflight EXCEPT ![i] = FreeSlot]
    /\ UNCHANGED <<catalog, call, result, fs>>

InitConcurrent ==
    /\ RULES = RulesData
    /\ ANTI_PATTERNS = AntiPatternsData
    /\ DECISION_TREES = DecisionTreesData
    /\ call = Idle
    /\ result = NoResult
    /\ fs = LockedFileTree
    /\ inflight = [i \in Slots |-> FreeSlot]

NextConcurrent ==
    \/ \E i \in Slots : BeginSearchRule(i)
    \/ \E i \in Slots : BeginSearchByContext(i)
    \/ \E i \in Slots : BeginListRules(i)
    \/ \E i \in Slots : BeginValidateModule(i)
    \/ \E i \in Slots : ResumeValidateModule(i)
    \/ \E i \in Slots : BeginCheckImports(i)
    \/ \E i \in Slots : ResumeReaddir(i)
    \/ \E i \in Slots : ResumeReadFile(i)
    \/ \E i \in Slots : Respond(i)

\* Up to MaxInFlight calls of the tools at once, interleaved at their awaits.
SpecConcurrent == InitConcurrent /\ [][NextConcurrent]_vars

(***************************************************************************)
(* C23: calls in flight at once answer as they do alone.                   *)
(***************************************************************************)

\* The response of the handler that runs alone on the input of a call.
AloneResponse(c) ==
    CASE c.fn = "search-rule" -> searchRule(c.input.query)
      [] c.fn = "search-by-context" -> searchByContext(c.input.context)
      [] c.fn = "list-rules" -> listRules(c.input.args)
      [] c.fn = "validate-module" -> validateModule(c.input.path)
      [] c.fn = "check-imports" -> checkImports(c.input.path)

\* C23: whatever calls are in flight and however they interleave at their
\* awaits, a call that returns has the response its handler gives when it
\* runs alone on the same input and file system.
C23_InterleavedCallsAnswerAsAlone ==
    \A i \in Slots :
        inflight[i].pc = "done" => inflight[i].response = AloneResponse(inflight[i])

\* A check-imports call has returned its report of two violations while
\* another check-imports call is between two of its readFile awaits with a
\* violation already found.
C23_Witness ==
    \E i, j \in Slots :
        /\ i # j
        /\ inflight[i].pc = "done"
        /\ inflight[i].fn = "check-imports"
        /\ inflight[i].input.path = "/p/modules"
        /\ inflight[i].response.content[1].text[5] = "## Result: 2 violation(s) found"
        /\ inflight[j].pc = "readFile"
        /\ inflight[j].fn = "check-imports"
        /\ inflight[j].next > 1
        /\ inflight[j].violations # << >>

====
